---- MODULE Spec2Model ----
(***************************************************************************)
(* A model of the bank-statement analysis pipeline of philvuai/bnk:        *)
(*   server/src/services/AIAnalysisService.ts  (normalizer, fallback       *)
(*       extractor, response parser, orchestrator)                         *)
(*   server/src/routes/analysis.ts             (analyze / correction       *)
(*       routes over the stored <fileId>.analysis.json)                    *)
(*                                                                         *)
(* Text is a sequence of one-character strings, so that the regular        *)
(* expressions of the source are computed position by position.  JSON      *)
(* values are tagged records.  Numbers are integers counted in hundredths  *)
(* (an amount of 45.99 is 4599, a confidence of 65 is 6500).               *)
(***************************************************************************)
EXTENDS Integers, Sequences, FiniteSets, TLC

VARIABLES
    text,        \* the extracted document text handed to the service
    today,       \* the day the clock shows (new Date().toISOString())
    hasApiKey,   \* AIAnalysisService.hasApiKey
    modelOutcome,\* what the model call will do: a response text or a throw
    pc,          \* position of the analyze run
    modelCalls,  \* number of generateContent calls made by the run
    path,        \* "none" | "model" | "fallback": the path the run is on
    result,      \* the AnalysisResult the run holds (NoResult before)
    stored,      \* content of uploads/<fileId>.analysis.json (NoResult: no file)
    pending,     \* correction requests received and not yet handled
    replies,     \* replies sent to correction requests, in order
    txs          \* a transaction list under aggregation (summary check)

vars == <<text, today, hasApiKey, modelOutcome, pc, modelCalls, path, result,
          stored, pending, replies, txs>>

-----------------------------------------------------------------------------
(* Characters *)

UpperLetters == <<"A","B","C","D","E","F","G","H","I","J","K","L","M",
                  "N","O","P","Q","R","S","T","U","V","W","X","Y","Z">>
LowerLetters == <<"a","b","c","d","e","f","g","h","i","j","k","l","m",
                  "n","o","p","q","r","s","t","u","v","w","x","y","z">>
DigitChars == <<"0","1","2","3","4","5","6","7","8","9">>

Range(f) == {f[i] : i \in DOMAIN f}

IsUpper(c) == c \in Range(UpperLetters)
IsLower(c) == c \in Range(LowerLetters)
IsDigit(c) == c \in Range(DigitChars)
\* the grave accent, which cannot be written inside a TLA+ string
Backtick == "grave"

\* \w of a JavaScript regular expression
IsWordChar(c) == IsUpper(c) \/ IsLower(c) \/ IsDigit(c) \/ c = "_"
\* \s of a JavaScript regular expression (the characters the inputs use)
IsSpace(c) == c \in {" ", "\n", "\t", "\r"}

DigitValue(c) == (CHOOSE i \in 1..10 : DigitChars[i] = c) - 1
DigitChar(d) == DigitChars[d + 1]

\* String.prototype.toLowerCase on one character
\* (mutant) the description is compared as it is written
ToLowerCharKeepsCase(c) == c

ToLowerChar(c) ==
    IF IsUpper(c) THEN LowerLetters[CHOOSE i \in 1..26 : UpperLetters[i] = c]
    ELSE c
toLowerCase(s) == [i \in 1..Len(s) |-> ToLowerChar(s[i])]

\* s[i], or "" past either end
At(s, i) == IF i >= 1 /\ i <= Len(s) THEN s[i] ELSE ""

\* the characters of s from position a to position b, as far as s reaches
Slice(s, a, b) ==
    SubSeq(s, IF a < 1 THEN 1 ELSE a, IF b > Len(s) THEN Len(s) ELSE b)

Indices(s) == [k \in 1..Len(s) |-> k]

RECURSIVE ConcatRange(_, _, _)
\* parts[lo] \o ... \o parts[hi], halving the range
ConcatRange(parts, lo, hi) ==
    IF lo > hi THEN <<>>
    ELSE IF lo = hi THEN parts[lo]
    ELSE ConcatRange(parts, lo, (lo + hi) \div 2)
         \o ConcatRange(parts, (lo + hi) \div 2 + 1, hi)
Concat(parts) == ConcatRange(parts, 1, Len(parts))

RECURSIVE StrRange(_, _, _)
StrRange(cs, lo, hi) ==
    IF lo > hi THEN ""
    ELSE IF lo = hi THEN cs[lo]
    ELSE StrRange(cs, lo, (lo + hi) \div 2) \o StrRange(cs, (lo + hi) \div 2 + 1, hi)
\* The TLA+ string of a character sequence
Str(cs) == StrRange(cs, 1, Len(cs))

RECURSIVE SkipSpace(_, _)
\* the first position at or after i that holds no whitespace
SkipSpace(s, i) ==
    IF i <= Len(s) /\ IsSpace(s[i]) THEN SkipSpace(s, i + 1) ELSE i

RECURSIVE SkipSpaceBack(_, _)
SkipSpaceBack(s, i) ==
    IF i >= 1 /\ IsSpace(s[i]) THEN SkipSpaceBack(s, i - 1) ELSE i

\* String.prototype.trim
trim(s) == SubSeq(s, SkipSpace(s, 1), SkipSpaceBack(s, Len(s)))

\* the first position at or after i that holds c, or 0
IndexOfChar(s, c, i) ==
    LET at == SelectSeq(Indices(s), LAMBDA k : k >= i /\ s[k] = c)
    IN  IF at = <<>> THEN 0 ELSE at[1]

\* the last position that holds c, or 0
LastIndexOfChar(s, c) ==
    LET at == SelectSeq(Indices(s), LAMBDA k : s[k] = c)
    IN  IF at = <<>> THEN 0 ELSE at[Len(at)]

\* String.prototype.split on a one-character separator
split(s, c) ==
    LET seps == SelectSeq(Indices(s), LAMBDA k : s[k] = c)
    IN  [p \in 1..Len(seps) + 1 |->
            SubSeq(s, IF p = 1 THEN 1 ELSE seps[p - 1] + 1,
                      IF p = Len(seps) + 1 THEN Len(s) ELSE seps[p] - 1)]

\* Array.prototype.join
join(parts, sep) ==
    Concat([k \in 1..Len(parts) |->
               IF k < Len(parts) THEN parts[k] \o sep ELSE parts[k]])

\* whether needle stands in s at position i
StartsAt(s, needle, i) == Slice(s, i, i + Len(needle) - 1) = needle

\* String.prototype.includes
includes(s, needle) == \E i \in 1..Len(s) + 1 : StartsAt(s, needle, i)

\* the decimal digits of a natural number
RECURSIVE NatChars(_)
NatChars(n) ==
    IF n < 10 THEN <<DigitChar(n)>>
    ELSE NatChars(n \div 10) \o <<DigitChar(n % 10)>>

Abs(n) == IF n < 0 THEN 0 - n ELSE n

-----------------------------------------------------------------------------
(* The regular expressions of the source.  Each pattern is given by the     *)
(* position after its match at a position i (0: no match at i).            *)

\* /\b([A-Z])\s+([A-Z])\s+([A-Z])/
SpacedCapsEnd(s, i) ==
    LET j == SkipSpace(s, i + 1)
        k == SkipSpace(s, j + 1)
    IN  IF /\ IsUpper(At(s, i)) /\ ~IsWordChar(At(s, i - 1))
           /\ IsSpace(At(s, i + 1))
           /\ IsUpper(At(s, j)) /\ IsSpace(At(s, j + 1))
           /\ IsUpper(At(s, k))
        THEN k + 1 ELSE 0

\* (mutant) /\s\s/: whitespace is replaced two characters at a time
WhitespaceEndPair(s, i) ==
    IF IsSpace(At(s, i)) /\ IsSpace(At(s, i + 1)) THEN i + 2 ELSE 0

\* /\s+/
WhitespaceEnd(s, i) == IF IsSpace(At(s, i)) THEN SkipSpace(s, i) ELSE 0

RECURSIVE DigitRun(_, _, _)
\* how many digits stand at i, i+1, ..., at most max
DigitRun(s, i, max) ==
    IF max > 0 /\ IsDigit(At(s, i)) THEN 1 + DigitRun(s, i + 1, max - 1) ELSE 0

RECURSIVE ThousandsEnd(_, _)
\* (?:,\d{3})* from position i: the position after the last group
ThousandsEnd(s, i) ==
    IF At(s, i) = "," /\ DigitRun(s, i + 1, 3) = 3
    THEN ThousandsEnd(s, i + 4) ELSE i

\* /[+-]?£?\d{1,3}(?:,\d{3})*(?:\.\d{2})?/ (signed), or the same without
\* the sign
AmountEnd(s, i, signed) ==
    LET a == IF signed /\ At(s, i) \in {"+", "-"} THEN i + 1 ELSE i
        b == IF At(s, a) = "£" THEN a + 1 ELSE a
        n == DigitRun(s, b, 3)
        c == ThousandsEnd(s, b + n)
    IN  IF n = 0 THEN 0
        ELSE IF At(s, c) = "." /\ DigitRun(s, c + 1, 2) = 2 THEN c + 3
        ELSE c

\* \d{1,2}[\/\-] matched at i: the position after the separator, or 0
DayOrMonthEnd(s, i) ==
    IF IsDigit(At(s, i)) /\ IsDigit(At(s, i + 1)) /\ At(s, i + 2) \in {"/", "-"}
    THEN i + 3
    ELSE IF IsDigit(At(s, i)) /\ At(s, i + 1) \in {"/", "-"} THEN i + 2
    ELSE 0

\* /(\d{1,2}[\/\-]\d{1,2}[\/\-]\d{2,4})/
DateEnd(s, i) ==
    LET m == DayOrMonthEnd(s, i)
        y == IF m = 0 THEN 0 ELSE DayOrMonthEnd(s, m)
        n == IF y = 0 THEN 0 ELSE DigitRun(s, y, 4)
    IN  IF n >= 2 THEN y + n ELSE 0

RECURSIVE WordEnd(_, _)
\* the position after the run of word characters at i
WordEnd(s, i) == IF IsWordChar(At(s, i)) THEN WordEnd(s, i + 1) ELSE i

\* "(\w+)" matched at i: the position after the closing quote, or 0
QuotedWordEnd(s, i) ==
    IF At(s, i) = "\"" /\ WordEnd(s, i + 1) > i + 1
                     /\ At(s, WordEnd(s, i + 1)) = "\""
    THEN WordEnd(s, i + 1) + 1 ELSE 0

\* the character a, whitespace, the character b: /a\s*b/
PairEnd(s, i, a, b) ==
    IF At(s, i) = a /\ At(s, SkipSpace(s, i + 1)) = b
    THEN SkipSpace(s, i + 1) + 1 ELSE 0

\* /"(\w+)"\s*:/
KeyColonEnd(s, i) ==
    IF QuotedWordEnd(s, i) # 0 /\ At(s, SkipSpace(s, QuotedWordEnd(s, i))) = ":"
    THEN SkipSpace(s, QuotedWordEnd(s, i)) + 1 ELSE 0

\* /"\s*"(\w+)"/
QuoteQuoteEnd(s, i) ==
    IF At(s, i) = "\"" THEN QuotedWordEnd(s, SkipSpace(s, i + 1)) ELSE 0

\* /```json\s*/
FenceOpenEnd(s, i) ==
    IF StartsAt(s, <<Backtick, Backtick, Backtick, "j", "s", "o", "n">>, i)
    THEN SkipSpace(s, i + 7) ELSE 0

\* /```\s*$/
FenceCloseEnd(s, i) ==
    IF StartsAt(s, <<Backtick, Backtick, Backtick>>, i) /\ SkipSpace(s, i + 3) > Len(s)
    THEN Len(s) + 1 ELSE 0

MatchEnd(kind, s, i) ==
    CASE kind = "spacedCaps" -> SpacedCapsEnd(s, i)
      [] kind = "whitespace" -> WhitespaceEnd(s, i)
      [] kind = "amount" -> AmountEnd(s, i, TRUE)
      [] kind = "unsignedAmount" -> AmountEnd(s, i, FALSE)
      [] kind = "date" -> DateEnd(s, i)
      [] kind = "fenceOpen" -> FenceOpenEnd(s, i)
      [] kind = "fenceClose" -> FenceCloseEnd(s, i)
      [] kind = "commaBrace" -> PairEnd(s, i, ",", "}")
      [] kind = "commaBracket" -> PairEnd(s, i, ",", "]")
      [] kind = "braceBrace" -> IF StartsAt(s, <<"}", "{">>, i) THEN i + 2 ELSE 0
      [] kind = "keyColon" -> KeyColonEnd(s, i)
      [] kind = "colonComma" -> PairEnd(s, i, ":", ",")
      [] kind = "commaComma" -> PairEnd(s, i, ",", ",")
      [] kind = "quoteQuote" -> QuoteQuoteEnd(s, i)

\* what String.prototype.replace puts for the match of the pattern at i
\* that ends before e
Replacement(kind, s, i, e) ==
    CASE kind = "spacedCaps" -> <<s[i], s[SkipSpace(s, i + 1)], s[e - 1]>>
      [] kind = "whitespace" -> <<" ">>
      [] kind \in {"amount", "date", "fenceOpen", "fenceClose"} -> <<>>
      [] kind = "commaBrace" -> <<"}">>
      [] kind = "commaBracket" -> <<"]">>
      [] kind = "braceBrace" -> <<"}", ",", "{">>
      [] kind = "keyColon" -> SubSeq(s, i, QuotedWordEnd(s, i) - 1) \o <<":">>
      [] kind = "colonComma" -> <<":", " ", "n", "u", "l", "l", ",">>
      [] kind = "commaComma" -> <<",">>
      [] kind = "quoteQuote" -> SubSeq(s, SkipSpace(s, i + 1), e - 1)

\* the positions where the pattern matches
MatchStarts(kind, s) ==
    SelectSeq(Indices(s), LAMBDA k : MatchEnd(kind, s, k) # 0)

\* the span of the match at position i: <<start, position after>>
SpanAt(kind, s, i) == <<i, MatchEnd(kind, s, i)>>

RECURSIVE MatchWalk(_, _, _)
\* the matches a global pattern finds, left to right and without overlap,
\* given the positions not yet passed where the pattern matches
MatchWalk(kind, s, starts) ==
    IF starts = <<>> THEN <<>>
    ELSE <<SpanAt(kind, s, starts[1])>>
         \o MatchWalk(kind, s,
               SelectSeq(starts, LAMBDA k : k >= MatchEnd(kind, s, starts[1])))

\* String.prototype.match with a global pattern: the spans of the matches
Matches(kind, s) == MatchWalk(kind, s, MatchStarts(kind, s))

\* the first match of the pattern, as a sequence of at most one span
FirstOf(kind, s, starts) ==
    IF starts = <<>> THEN <<>> ELSE <<SpanAt(kind, s, starts[1])>>
FirstMatch(kind, s) == FirstOf(kind, s, MatchStarts(kind, s))

\* the text up to the m-th match with its replacement, or the text after
\* the last match
ReplacePiece(kind, s, ms, m, from) ==
    IF m <= Len(ms)
    THEN SubSeq(s, from, ms[m][1] - 1) \o Replacement(kind, s, ms[m][1], ms[m][2])
    ELSE SubSeq(s, from, Len(s))

\* s with the matches ms replaced
ReplaceSpans(kind, s, ms) ==
    Concat([m \in 1..Len(ms) + 1 |->
               ReplacePiece(kind, s, ms, m, IF m = 1 THEN 1 ELSE ms[m - 1][2])])

\* String.prototype.replace with a global pattern
ReplaceAll(kind, s) == ReplaceSpans(kind, s, Matches(kind, s))

\* String.prototype.replace with a pattern that is not global
ReplaceFirst(kind, s) == ReplaceSpans(kind, s, FirstMatch(kind, s))

\* one step of a chain of string calls
TextPass(name, s) ==
    CASE name = "joinSpacedCaps" -> ReplaceAll("spacedCaps", s)
      [] name = "collapseWhitespace" -> ReplaceAll("whitespace", s)
      [] name = "removeDate" -> ReplaceFirst("date", s)
      [] name = "removeAmounts" -> ReplaceAll("amount", s)
      [] name = "trim" -> trim(s)
      [] name = "stripFenceOpen" -> ReplaceFirst("fenceOpen", s)
      [] name = "stripFenceClose" -> ReplaceFirst("fenceClose", s)
      [] name \in {"commaBrace", "commaBracket", "braceBrace", "keyColon",
                   "colonComma", "commaComma", "quoteQuote"} -> ReplaceAll(name, s)

RECURSIVE Passes(_, _)
\* a chain of string calls, applied left to right
Passes(names, s) ==
    IF names = <<>> THEN s ELSE Passes(Tail(names), TextPass(names[1], s))

-----------------------------------------------------------------------------
(* The text normalizer *)

\* the map callback of cleanExtractedText: a line of many one-character
\* words is joined
ReconstructLine(line) ==
    LET words == split(line, " ")
        singles == Cardinality({i \in 1..Len(words) : Len(words[i]) = 1})
    IN  IF Len(words) > 10 /\ 2 * singles > Len(words)
        THEN join(words, <<>>) ELSE line

\* lines.map(...).join('\n')
JoinReconstructed(lines) ==
    join([i \in 1..Len(lines) |-> ReconstructLine(lines[i])], <<"\n">>)

cleanExtractedText(t) ==
    JoinReconstructed(
        split(Passes(<<"joinSpacedCaps", "collapseWhitespace", "trim">>, t), "\n"))

-----------------------------------------------------------------------------
(* Amounts and dates of the fallback extractor *)

\* line.match(amountPattern): the matched texts
SpanTexts(s, spans) ==
    [k \in 1..Len(spans) |-> SubSeq(s, spans[k][1], spans[k][2] - 1)]
AmountMatches(s, signed) ==
    SpanTexts(s, Matches(IF signed THEN "amount" ELSE "unsignedAmount", s))

RECURSIVE DigitsValue(_, _)
\* the value of a run of digits, acc being the value read so far
DigitsValue(ds, acc) ==
    IF ds = <<>> THEN acc
    ELSE DigitsValue(Tail(ds), 10 * acc + DigitValue(ds[1]))

\* amt.replace(/[£,]/g, '') then parseFloat, in hundredths.  The text is a
\* match of the amount pattern: sign, digits, and at most ".dd".
ParseAmount(amt) ==
    LET cleanAmt == SelectSeq(amt, LAMBDA c : c \notin {"£", ","})
        neg == At(cleanAmt, 1) = "-"
        body == IF At(cleanAmt, 1) \in {"+", "-"} THEN Tail(cleanAmt) ELSE cleanAmt
        dot == IndexOfChar(body, ".", 1)
        whole == IF dot = 0 THEN body ELSE SubSeq(body, 1, dot - 1)
        frac == IF dot = 0 THEN <<>> ELSE SubSeq(body, dot + 1, Len(body))
        value == 100 * DigitsValue(whole, 0) + DigitsValue(frac, 0)
    IN  IF neg THEN 0 - value ELSE value

padStart2(p) == IF Len(p) < 2 THEN <<"0">> \o p ELSE p

normalizeDate(dateStr) ==
    LET slashed == [i \in 1..Len(dateStr) |->
                        IF dateStr[i] = "-" THEN "/" ELSE dateStr[i]]
        parts == split(slashed, "/")
    IN  IF Len(parts) = 3
        THEN LET day == parts[1]
                 month == parts[2]
                 year == parts[3]
                 fullYear == IF Len(year) = 2 THEN <<"2", "0">> \o year ELSE year
             IN  fullYear \o <<"-">> \o padStart2(month) \o <<"-">> \o padStart2(day)
        ELSE dateStr

-----------------------------------------------------------------------------
(* Category guessing *)

kwOffice == <<"o","f","f","i","c","e">>
kwSupplies == <<"s","u","p","p","l","i","e","s">>
kwStationery == <<"s","t","a","t","i","o","n","e","r","y">>
kwTravel == <<"t","r","a","v","e","l">>
kwHotel == <<"h","o","t","e","l">>
kwTransport == <<"t","r","a","n","s","p","o","r","t">>
kwSoftware == <<"s","o","f","t","w","a","r","e">>
kwComputer == <<"c","o","m","p","u","t","e","r">>
kwEquipment == <<"e","q","u","i","p","m","e","n","t">>
kwMarketing == <<"m","a","r","k","e","t","i","n","g">>
kwAdvertising == <<"a","d","v","e","r","t","i","s","i","n","g">>
kwEntertainment == <<"e","n","t","e","r","t","a","i","n","m","e","n","t">>
kwLegal == <<"l","e","g","a","l">>
kwAccountant == <<"a","c","c","o","u","n","t","a","n","t">>
kwInsurance == <<"i","n","s","u","r","a","n","c","e">>
kwSalary == <<"s","a","l","a","r","y">>
kwStaff == <<"s","t","a","f","f">>
kwEmployee == <<"e","m","p","l","o","y","e","e">>

guessCategory(description) ==
    LET desc == toLowerCase(description)
        has(kw) == includes(desc, kw)
    IN  IF has(kwOffice) \/ has(kwSupplies) \/ has(kwStationery)
        THEN "Office costs"
        ELSE IF has(kwTravel) \/ has(kwHotel) \/ has(kwTransport)
        THEN "Travel costs"
        ELSE IF has(kwSoftware) \/ has(kwComputer) \/ has(kwEquipment)
        THEN "Equipment and software"
        ELSE IF has(kwMarketing) \/ has(kwAdvertising) \/ has(kwEntertainment)
        THEN "Marketing and entertainment"
        ELSE IF has(kwLegal) \/ has(kwAccountant) \/ has(kwInsurance)
        THEN "Legal and financial costs"
        ELSE IF has(kwSalary) \/ has(kwStaff) \/ has(kwEmployee)
        THEN "Staff costs"
        ELSE "Unknown"

-----------------------------------------------------------------------------
(* JSON values.  An object is a function from its keys to values; an array *)
(* is a sequence.                                                          *)

JUndefined == [t |-> "undefined"]
JNull == [t |-> "null"]
JNaN == [t |-> "NaN"]
JNum(h) == [t |-> "num", n |-> h]       \* h in hundredths
JStr(s) == [t |-> "str", s |-> s]
JBool(b) == [t |-> "bool", b |-> b]
JArr(a) == [t |-> "arr", a |-> a]
JObj(o) == [t |-> "obj", o |-> o]

\* a whole number as a JSON number
Num(i) == JNum(100 * i)

\* o.k of JavaScript: undefined when the object has no such key
Get(o, k) == IF k \in DOMAIN o THEN o[k] ELSE JUndefined

\* the truthiness of a value (what && and || test)
Truthy(v) ==
    CASE v.t = "str" -> v.s # ""
      [] v.t = "num" -> v.n # 0
      [] v.t = "bool" -> v.b
      [] v.t \in {"undefined", "null", "NaN"} -> FALSE
      [] OTHER -> TRUE

\* Number.prototype.toString of a number of hundredths
NumberChars(h) ==
    LET whole == NatChars(Abs(h) \div 100)
        frac == Abs(h) % 100
        sign == IF h < 0 THEN <<"-">> ELSE <<>>
    IN  IF frac = 0 THEN sign \o whole
        ELSE IF frac % 10 = 0 THEN sign \o whole \o <<".", DigitChar(frac \div 10)>>
        ELSE sign \o whole \o <<".", DigitChar(frac \div 10), DigitChar(frac % 10)>>

\* the property key a value is converted to when it indexes an object
PropertyKey(v) ==
    CASE v.t = "str" -> v.s
      [] v.t = "num" -> Str(NumberChars(v.n))
      [] v.t = "bool" -> IF v.b THEN "true" ELSE "false"
      [] v.t = "obj" -> "[object Object]"
      [] OTHER -> v.t

\* Math.abs: of a number its magnitude; null converts to 0, a boolean to
\* 0 or 1, the empty string to 0; anything else the inputs hold is NaN.
MathAbs(v) ==
    CASE v.t = "num" -> JNum(Abs(v.n))
      [] v.t = "null" -> JNum(0)
      [] v.t = "bool" -> IF v.b THEN JNum(100) ELSE JNum(0)
      [] v.t = "str" /\ v.s = "" -> JNum(0)
      [] OTHER -> JNaN

\* a + b on numbers
Plus(a, b) == IF a.t = "num" /\ b.t = "num" THEN JNum(a.n + b.n) ELSE JNaN

RECURSIVE SumSigned(_, _)
\* (mutant) the amounts are added with their signs
SumSigned(ts, acc) ==
    IF ts = <<>> THEN acc
    ELSE SumSigned(Tail(ts), Plus(acc, Get(ts[1], "amount")))

RECURSIVE SumAbs(_, _)
\* acc += Math.abs(t.amount) over the transactions of ts, in order
SumAbs(ts, acc) ==
    IF ts = <<>> THEN acc
    ELSE SumAbs(Tail(ts), Plus(acc, MathAbs(Get(ts[1], "amount"))))

\* The aggregation loop, of the same shape in the three places that compute
\* a summary: keyOf[i] is the category key transaction i is counted under,
\* counted[i] whether it counts as categorized.
Aggregate(ts, keyOf, counted) ==
    LET keys == {keyOf[i] : i \in 1..Len(ts)}
        under(k) == LET idx == SelectSeq([i \in 1..Len(ts) |-> i],
                                         LAMBDA i : keyOf[i] = k)
                    IN  [j \in 1..Len(idx) |-> ts[idx[j]]]
    IN  [totalTransactions |-> Len(ts),
         categorizedTransactions |-> Cardinality({i \in 1..Len(ts) : counted[i]}),
         categoryBreakdown |-> [k \in keys |-> Len(under(k))],
         totalAmount |-> SumAbs(ts, JNum(0)),
         categoryAmounts |-> [k \in keys |-> SumAbs(under(k), JNum(0))]]

\* transaction.category || 'Unknown'
CategoryOrUnknown(t) ==
    IF Truthy(Get(t, "category")) THEN PropertyKey(Get(t, "category"))
    ELSE "Unknown"
\* t.category && t.category !== 'Unknown'
IsCategorized(t) ==
    Truthy(Get(t, "category")) /\ Get(t, "category") # JStr("Unknown")

\* AIAnalysisService.parseAnalysisResult, "Calculate summary statistics"
parseSummary(ts) ==
    Aggregate(ts, [i \in 1..Len(ts) |-> CategoryOrUnknown(ts[i])],
                  [i \in 1..Len(ts) |-> IsCategorized(ts[i])])

\* (mutant) the total counts only the categorized transactions
fallbackSummaryCategorizedOnly(ts) ==
    LET counted == [i \in 1..Len(ts) |-> Get(ts[i], "category") # JStr("Unknown")]
        agg == Aggregate(ts, [i \in 1..Len(ts) |-> PropertyKey(Get(ts[i], "category"))],
                         counted)
    IN  [agg EXCEPT !.totalTransactions = agg.categorizedTransactions]

\* AIAnalysisService.fallbackAnalysis, "Calculate summary": the category is
\* used as it is
fallbackSummary(ts) ==
    Aggregate(ts, [i \in 1..Len(ts) |-> PropertyKey(Get(ts[i], "category"))],
                  [i \in 1..Len(ts) |-> Get(ts[i], "category") # JStr("Unknown")])

\* (mutant) the category is used as it is, without 'Unknown' in its place
routeSummaryRawKey(ts) ==
    Aggregate(ts, [i \in 1..Len(ts) |-> PropertyKey(Get(ts[i], "category"))],
                  [i \in 1..Len(ts) |-> IsCategorized(ts[i])])

\* routes/analysis.ts, "Recalculate summary"
routeSummary(ts) ==
    Aggregate(ts, [i \in 1..Len(ts) |-> CategoryOrUnknown(ts[i])],
                  [i \in 1..Len(ts) |-> IsCategorized(ts[i])])

-----------------------------------------------------------------------------
(* The fallback extractor *)

NoResult == [none |-> TRUE]


RECURSIVE LargestMagnitudeLast(_, _)
\* (mutant) of two amounts as large as each other the later one is taken
LargestMagnitudeLast(amounts, max) ==
    IF amounts = <<>> THEN max
    ELSE LargestMagnitudeLast(Tail(amounts),
                              IF Abs(amounts[1]) >= Abs(max) THEN amounts[1] ELSE max)

RECURSIVE LargestMagnitude(_, _)
\* amounts.reduce((max, curr) => Math.abs(curr) > Math.abs(max) ? curr : max)
LargestMagnitude(amounts, max) ==
    IF amounts = <<>> THEN max
    ELSE LargestMagnitude(Tail(amounts),
                          IF Abs(amounts[1]) > Abs(max) THEN amounts[1] ELSE max)

\* description.length < 3 ? `Transaction ${index + 1}` : description
DescriptionOr(stripped, index) ==
    IF Len(stripped) < 3
    THEN <<"T","r","a","n","s","a","c","t","i","o","n"," ">> \o NatChars(index + 1)
    ELSE stripped

\* transactions.push({...}) of the primary pattern
PrimaryTransaction(dateMatch, amounts, description) ==
    [date |-> JStr(Str(normalizeDate(dateMatch))),
     description |-> JStr(Str(description)),
     amount |-> JNum(LargestMagnitude(Tail(amounts), amounts[1])),
     category |-> JStr(guessCategory(description)),
     confidence |-> Num(65)]

PrimaryMatched(line, index, dates, amountMatches) ==
    IF dates # <<>> /\ Len(amountMatches) > 0
    THEN << PrimaryTransaction(
                SubSeq(line, dates[1][1], dates[1][2] - 1),
                [k \in 1..Len(amountMatches) |-> ParseAmount(amountMatches[k])],
                DescriptionOr(Passes(<<"removeDate", "removeAmounts",
                                       "collapseWhitespace", "trim">>, line),
                              index)) >>
    ELSE <<>>

\* The body of lines.forEach: the transactions (none or one) the primary
\* pattern pushes for the line at 0-based position index.
PrimaryPattern(line, index) ==
    PrimaryMatched(line, index, FirstMatch("date", line), AmountMatches(line, TRUE))

RECURSIVE PrimaryFrom(_, _)
PrimaryFrom(lines, i) ==
    IF i > Len(lines) THEN <<>>
    ELSE PrimaryPattern(lines[i], i - 1) \o PrimaryFrom(lines, i + 1)

RECURSIVE Unique(_, _)
\* [...new Set(xs)]: the first occurrence of each value, in order
Unique(xs, seen) ==
    IF xs = <<>> THEN <<>>
    ELSE IF xs[1] \in seen THEN Unique(Tail(xs), seen)
    ELSE <<xs[1]>> \o Unique(Tail(xs), seen \cup {xs[1]})

\* transactions.push({...}) of the secondary pattern, for each amount kept
SecondaryTransactions(kept) ==
    [k \in 1..Len(kept) |->
        [date |-> JStr("2025-06-15"),
         description |-> JStr("Transaction from PDF - Amount "
                              \o Str(NumberChars(kept[k]))),
         amount |-> JNum(0 - kept[k]),
         category |-> JStr("Other expenses"),
         confidence |-> Num(45)]]

\* (mutant) every amount kept gets a transaction
Slice10Uncapped(xs) == xs

\* .slice(0, 10)
Slice10(xs) == SubSeq(xs, 1, IF Len(xs) < 10 THEN Len(xs) ELSE 10)

ParseAmounts(matches) == [k \in 1..Len(matches) |-> ParseAmount(matches[k])]

\* The second tier: one expense per distinct amount found in the text.
SecondaryPattern(cleanedText) ==
    SecondaryTransactions(
        Slice10(SelectSeq(Unique(ParseAmounts(AmountMatches(cleanedText, FALSE)), {}),
                          LAMBDA amt : amt > 0 /\ amt < 10000 * 100)))

\* The third tier: the demonstration transactions, dated today.
DemoTransactions(day) ==
    << [date |-> JStr(day),
        description |-> JStr("PDF Processing Demo - Office Supplies"),
        amount |-> JNum(-4599), category |-> JStr("Office costs"),
        subcategory |-> JStr("Supplies"), confidence |-> Num(75)],
       [date |-> JStr(day),
        description |-> JStr("PDF Processing Demo - Software License"),
        amount |-> JNum(-2999), category |-> JStr("Equipment and software"),
        subcategory |-> JStr("Software"), confidence |-> Num(80)],
       [date |-> JStr(day),
        description |-> JStr("PDF Processing Demo - Travel Expense"),
        amount |-> JNum(-12550), category |-> JStr("Travel costs"),
        subcategory |-> JStr("Transport"), confidence |-> Num(70)] >>

\* (mutant) the third tier is left out
TierChoiceNoDemo(primary, secondary, day) ==
    IF primary # <<>> THEN primary ELSE secondary

\* (mutant) the second tier runs after a first tier that found transactions
TierChoiceMixed(primary, secondary, day) ==
    IF primary # <<>> THEN primary \o secondary
    ELSE IF secondary # <<>> THEN secondary
    ELSE DemoTransactions(day)

\* if (transactions.length === 0) { ... }, twice: the transactions of the
\* first tier that found any
TierChoice(primary, secondary, day) ==
    IF primary # <<>> THEN primary
    ELSE IF secondary # <<>> THEN secondary
    ELSE DemoTransactions(day)

\* The transactions fallbackAnalysis ends with
fallbackTransactions(extractedText, day) ==
    TierChoice(PrimaryFrom(split(cleanExtractedText(extractedText), "\n"), 1),
               SecondaryPattern(cleanExtractedText(extractedText)), day)

\* return { transactions, summary: {...} }
FallbackResult(transactions) ==
    [transactions |-> transactions, summary |-> fallbackSummary(transactions)]

fallbackAnalysis(extractedText, day) ==
    FallbackResult(fallbackTransactions(extractedText, day))

-----------------------------------------------------------------------------
(* JSON.parse, on the characters of the text.  A parse yields                *)
(* [ok |-> TRUE, v |-> value, next |-> position after it] or ParseFail.      *)

ParseFail == [ok |-> FALSE]
Parsed(v, next) == [ok |-> TRUE, v |-> v, next |-> next]

RECURSIVE StringEnd(_, _)
\* the position of the quote closing the string whose content starts at i,
\* or 0 when the string is not closed
StringEnd(s, i) ==
    IF i > Len(s) THEN 0
    ELSE IF s[i] = "\"" THEN i
    ELSE IF s[i] = "\\" THEN StringEnd(s, i + 2)
    ELSE IF s[i] \in {"\n", "\t", "\r"} THEN 0
    ELSE StringEnd(s, i + 1)

RECURSIVE Unescape(_)
\* the characters a string literal's content stands for
Unescape(cs) ==
    IF cs = <<>> THEN <<>>
    ELSE IF cs[1] = "\\" /\ Len(cs) >= 2
    THEN <<(IF cs[2] = "n" THEN "\n" ELSE IF cs[2] = "t" THEN "\t" ELSE cs[2])>>
         \o Unescape(Tail(Tail(cs)))
    ELSE <<cs[1]>> \o Unescape(Tail(cs))

\* a string literal at i (s[i] is the opening quote)
ParseString(s, i) ==
    LET e == StringEnd(s, i + 1)
    IN  IF At(s, i) # "\"" \/ e = 0 THEN ParseFail
        ELSE Parsed(JStr(Str(Unescape(SubSeq(s, i + 1, e - 1)))), e + 1)

RECURSIVE DigitsEnd(_, _)
\* the position after the run of digits at i
DigitsEnd(s, i) == IF IsDigit(At(s, i)) THEN DigitsEnd(s, i + 1) ELSE i

\* the hundredths a fraction's digits stand for (its first two digits)
FractionValue(ds) ==
    10 * (IF Len(ds) >= 1 THEN DigitValue(ds[1]) ELSE 0)
       + (IF Len(ds) >= 2 THEN DigitValue(ds[2]) ELSE 0)

\* a number literal at i: -?(0|[1-9]\d*)(\.\d+)?
ParseNumber(s, i) ==
    LET a == IF At(s, i) = "-" THEN i + 1 ELSE i
        b == IF At(s, a) = "0" THEN a + 1 ELSE DigitsEnd(s, a)
        c == IF At(s, b) = "." THEN DigitsEnd(s, b + 1) ELSE b
        value == 100 * DigitsValue(SubSeq(s, a, b - 1), 0)
                 + (IF c > b THEN FractionValue(SubSeq(s, b + 1, c - 1)) ELSE 0)
    IN  IF b = a \/ (At(s, b) = "." /\ c = b + 1) THEN ParseFail
        ELSE Parsed(JNum(IF a > i THEN 0 - value ELSE value), c)

\* null, true or false at i
ParseLiteral(s, i) ==
    IF StartsAt(s, <<"n","u","l","l">>, i) THEN Parsed(JNull, i + 4)
    ELSE IF StartsAt(s, <<"t","r","u","e">>, i) THEN Parsed(JBool(TRUE), i + 4)
    ELSE IF StartsAt(s, <<"f","a","l","s","e">>, i) THEN Parsed(JBool(FALSE), i + 5)
    ELSE ParseFail

EmptyObject == [k \in {} |-> JNull]

\* o with key k set to v
WithKey(o, k, v) == [x \in DOMAIN o \cup {k} |-> IF x = k THEN v ELSE o[x]]

RECURSIVE ParseValue(_, _)
RECURSIVE ParseMembers(_, _, _)
RECURSIVE ParseElements(_, _, _)

\* the members of an object from position i on, o holding those read so
\* far: "key" : value, then a comma and more, or the closing brace
ParseMembers(s, i, o) ==
    LET k == ParseString(s, SkipSpace(s, i))
    IN  IF ~k.ok \/ At(s, SkipSpace(s, k.next)) # ":" THEN ParseFail
        ELSE LET v == ParseValue(s, SkipSpace(s, k.next) + 1)
             IN  IF ~v.ok THEN ParseFail
                 ELSE LET j == SkipSpace(s, v.next)
                          o2 == WithKey(o, k.v.s, v.v)
                      IN  IF At(s, j) = "}" THEN Parsed(JObj(o2), j + 1)
                          ELSE IF At(s, j) = "," THEN ParseMembers(s, j + 1, o2)
                          ELSE ParseFail

\* the elements of an array from position i on, a holding those read so far
ParseElements(s, i, a) ==
    LET v == ParseValue(s, i)
    IN  IF ~v.ok THEN ParseFail
        ELSE LET j == SkipSpace(s, v.next)
             IN  IF At(s, j) = "]" THEN Parsed(JArr(Append(a, v.v)), j + 1)
                 ELSE IF At(s, j) = "," THEN ParseElements(s, j + 1, Append(a, v.v))
                 ELSE ParseFail

\* a value at or after i, whitespace skipped
ParseValue(s, i) ==
    LET j == SkipSpace(s, i)
        c == At(s, j)
    IN  IF c = "{"
        THEN IF At(s, SkipSpace(s, j + 1)) = "}"
             THEN Parsed(JObj(EmptyObject), SkipSpace(s, j + 1) + 1)
             ELSE ParseMembers(s, j + 1, EmptyObject)
        ELSE IF c = "["
        THEN IF At(s, SkipSpace(s, j + 1)) = "]"
             THEN Parsed(JArr(<<>>), SkipSpace(s, j + 1) + 1)
             ELSE ParseElements(s, j + 1, <<>>)
        ELSE IF c = "\"" THEN ParseString(s, j)
        ELSE IF c = "-" \/ IsDigit(c) THEN ParseNumber(s, j)
        ELSE ParseLiteral(s, j)

\* JSON.parse: the value, or ParseFail where JSON.parse throws
JSONParse(s) ==
    LET r == ParseValue(s, 1)
    IN  IF r.ok /\ SkipSpace(s, r.next) > Len(s) THEN r ELSE ParseFail

-----------------------------------------------------------------------------
(* fixMalformedJson: the chain of replacements, then the loop over the      *)
(* lines of the outcome.                                                    *)

\* parseFloat of a text: the longest prefix sign? digits (. digits)?, in
\* hundredths; JNaN when there is none
ParseFloatAt(cs, a) ==
    IF DigitsEnd(cs, a) = a THEN JNaN
    ELSE JNum((IF At(cs, 1) = "-" THEN -1 ELSE 1)
              * (100 * DigitsValue(SubSeq(cs, a, DigitsEnd(cs, a) - 1), 0)
                 + (IF At(cs, DigitsEnd(cs, a)) = "."
                    THEN FractionValue(SubSeq(cs, DigitsEnd(cs, a) + 1,
                                       DigitsEnd(cs, DigitsEnd(cs, a) + 1) - 1))
                    ELSE 0)))
ParseFloat(cs) == ParseFloatAt(cs, IF At(cs, 1) \in {"+", "-"} THEN 2 ELSE 1)

\* the value a property line gives its key: the text between quotes, a
\* number, or the text as it is
LineValue(cleanValue) ==
    IF At(cleanValue, 1) = "\"" /\ At(cleanValue, Len(cleanValue)) = "\""
    THEN [t |-> "chars", cs |-> SubSeq(cleanValue, 2, Len(cleanValue) - 1)]
    ELSE IF ParseFloat(cleanValue) # JNaN THEN ParseFloat(cleanValue)
    ELSE [t |-> "chars", cs |-> cleanValue]

\* value.replace(/,$/, '')
DropComma(cs) ==
    IF At(cs, Len(cs)) = "," THEN SubSeq(cs, 1, Len(cs) - 1) ELSE cs

\* (.+?)(?:,\s*$|$) on the rest of a trimmed line: all of it but a closing
\* comma, and at least one character
LazyValue(rest) == IF Len(rest) >= 2 THEN DropComma(rest) ELSE rest

\* the positions of a trimmed line where /"(\w+)"\s*:\s*(.+?)(?:,\s*$|$)/
\* matches
PropertyStarts(trimmed) ==
    SelectSeq(Indices(trimmed),
              LAMBDA p : KeyColonEnd(trimmed, p) # 0
                         /\ SkipSpace(trimmed, KeyColonEnd(trimmed, p)) <= Len(trimmed))

\* currentTransaction[key] = ... for the match at position p
SetProperty(current, trimmed, p) ==
    WithKey(current,
            Str(SubSeq(trimmed, p + 1, QuotedWordEnd(trimmed, p) - 2)),
            LineValue(trim(DropComma(LazyValue(
                SubSeq(trimmed, SkipSpace(trimmed, KeyColonEnd(trimmed, p)),
                       Len(trimmed)))))))

\* a property line: the match, if there is one, sets a key
PropertyLine(current, trimmed, starts) ==
    IF starts = <<>> THEN current ELSE SetProperty(current, trimmed, starts[1])

\* the body of the loop over the lines, st holding inTransaction,
\* currentTransaction and transactionObjects
LineStep(st, trimmed) ==
    IF trimmed = <<"{">> /\ ~st.inTransaction
    THEN [st EXCEPT !.inTransaction = TRUE, !.currentTransaction = EmptyObject]
    ELSE IF trimmed = <<"}">> \/ trimmed = <<"}", ",">>
    THEN IF st.inTransaction /\ DOMAIN st.currentTransaction # {}
         THEN [inTransaction |-> FALSE, currentTransaction |-> EmptyObject,
               transactionObjects |->
                   Append(st.transactionObjects, st.currentTransaction)]
         ELSE [st EXCEPT !.inTransaction = FALSE]
    ELSE IF st.inTransaction /\ includes(trimmed, <<":">>)
    THEN [st EXCEPT !.currentTransaction =
              PropertyLine(st.currentTransaction, trimmed, PropertyStarts(trimmed))]
    ELSE st

RECURSIVE LineLoop(_, _, _)
LineLoop(lines, i, st) ==
    IF i > Len(lines) THEN st
    ELSE LineLoop(lines, i + 1, LineStep(st, trim(lines[i])))

\* the objects the loop collects from the lines of the repaired text
TransactionObjects(fixed) ==
    LineLoop(split(fixed, "\n"), 1,
             [inTransaction |-> FALSE, currentTransaction |-> EmptyObject,
              transactionObjects |-> <<>>]).transactionObjects

\* the value JSON.parse gives back for JSON.stringify of a collected value
Reparsed(v) == IF v.t = "chars" THEN JStr(Str(v.cs)) ELSE v

\* JSON.parse(JSON.stringify({transactions: transactionObjects}))
Reconstructed(objects) ==
    JObj([k \in {"transactions"} |->
            JArr([i \in 1..Len(objects) |->
                    JObj([key \in DOMAIN objects[i] |-> Reparsed(objects[i][key])])])])

\* (mutant) the chain without the removal of a comma before a bracket
FixPassesNoCommaBracket ==
    <<"commaBrace", "braceBrace", "keyColon", "colonComma",
      "commaComma", "quoteQuote", "collapseWhitespace", "trim">>

\* the chain of replacements of fixMalformedJson
FixPasses ==
    <<"commaBrace", "commaBracket", "braceBrace", "keyColon", "colonComma",
      "commaComma", "quoteQuote", "collapseWhitespace", "trim">>

\* JSON.parse(fixMalformedJson(jsonString)): of the object put together from
\* the lines when the loop collected any, of the repaired text otherwise
ParseRepaired(fixed, objects) ==
    IF Len(objects) > 0 THEN Parsed(Reconstructed(objects), Len(fixed) + 1)
    ELSE JSONParse(fixed)
ParseFixed(fixed) == ParseRepaired(fixed, TransactionObjects(fixed))

-----------------------------------------------------------------------------
(* parseAnalysisResult.  Its outcome is [ok |-> TRUE, value |-> result], or  *)
(* Thrown where it throws 'Failed to parse AI analysis result'.             *)

Thrown == [ok |-> FALSE]
Returned(value) == [ok |-> TRUE, value |-> value]

\* jsonText.match(/\{[\s\S]*\}/): from the first opening brace to the last
\* closing brace
JsonSpan(jsonText, open, close) ==
    IF open = 0 \/ close < open THEN [found |-> FALSE]
    ELSE [found |-> TRUE, text |-> SubSeq(jsonText, open, close)]

\* (mutant) a response without an object reads as the empty object
matchJsonObjectOrEmpty(jsonText) ==
    IF IndexOfChar(jsonText, "{", 1) = 0 THEN [found |-> TRUE, text |-> <<"{", "}">>]
    ELSE JsonSpan(jsonText, IndexOfChar(jsonText, "{", 1),
                  LastIndexOfChar(jsonText, "}"))

matchJsonObject(jsonText) ==
    JsonSpan(jsonText, IndexOfChar(jsonText, "{", 1), LastIndexOfChar(jsonText, "}"))

\* parsed.transactions || []
TransactionsOf(parsed) ==
    IF parsed.t = "obj" /\ Truthy(Get(parsed.o, "transactions"))
    THEN Get(parsed.o, "transactions") ELSE JArr(<<>>)

\* the callback of transactions.filter: the required fields are there
HasRequiredFields(t) ==
    /\ t.t = "obj"
    /\ Truthy(Get(t.o, "date")) /\ Truthy(Get(t.o, "description"))
    /\ Get(t.o, "amount") \notin {JUndefined, JNull}
    /\ Truthy(Get(t.o, "category"))

\* the callback of transactions.map: confidence: t.confidence || 50
WithConfidence(t) ==
    WithKey(t.o, "confidence",
            IF Truthy(Get(t.o, "confidence")) THEN Get(t.o, "confidence") ELSE Num(50))

CleanTransactions(elements) ==
    [i \in 1..Len(elements) |-> WithConfidence(elements[i])]

\* the result built from the transactions kept
ResultOf(transactions) ==
    [transactions |-> transactions, summary |-> parseSummary(transactions)]

\* the filter throws on a value that is no array and on a null element
FromTransactions(x) ==
    IF x.t # "arr" \/ \E i \in 1..Len(x.a) : x.a[i] = JNull THEN Thrown
    ELSE Returned(ResultOf(CleanTransactions(SelectSeq(x.a, HasRequiredFields))))

FromParsed(parsed) ==
    IF ~parsed.ok THEN Thrown ELSE FromTransactions(TransactionsOf(parsed.v))

FromMatch(jsonMatch) ==
    IF ~jsonMatch.found THEN Thrown
    ELSE FromParsed(ParseFixed(Passes(FixPasses, jsonMatch.text)))

parseAnalysisResult(analysisText) ==
    FromMatch(matchJsonObject(
        Passes(<<"stripFenceOpen", "stripFenceClose">>, analysisText)))

-----------------------------------------------------------------------------
(* Inputs *)

\* the line of the end-to-end scenario
OfficeSuppliesLine ==
    <<"0","5","/","0","6","/","2","0","2","5"," "," "," ","O","F","F","I","C","E"," ","S","U","P","P","L","I","E","S"," ","L","T","D"," "," "," ","£","4","5",".","9","9">>

fDate == <<"0","5","/","0","6","/","2","0","2","5">>
fShortDate == <<"1","-","2","-","3","4">>
fPounds == <<"£","4","5",".","9","9">>
fZero == <<"0">>
fTenThousand == <<"1","0",",","0","0","0">>
fOffice == <<"O","F","F","I","C","E">>
fHotel == <<"h","o","t","e","l">>
fSpace == <<" ">>
fNewline == <<"\n">>

\* the pieces input texts are put together from
Fragments == {fDate, fShortDate, fPounds, fZero, fTenThousand, fOffice,
              fHotel, fSpace, fNewline}

\* the number of pieces of an input text
MaxFrags == 3

\* 05/06/2025 OFFICE £45.99
\* 1-2-34 hotel £45.99
TwoStatementLines ==
    fDate \o fSpace \o fOffice \o fSpace \o fPounds \o fNewline
        \o fShortDate \o fSpace \o fHotel \o fSpace \o fPounds

\* twelve amounts and no date: 10 11 12 13 14 15 16 17 18 19 20 21
TwelveAmounts ==
    <<"1","0"," ","1","1"," ","1","2"," ","1","3"," ","1","4"," ","1","5"," ","1","6"," ","1","7"," ","1","8"," ","1","9"," ","2","0"," ","2","1">>

\* an amount as large as a piece of the date: 1-2-34 +34.00
TieLine ==
    <<"1","-","2","-","3","4"," ","+","3","4",".","0","0">>

InputTexts ==
    {Concat(fs) : fs \in UNION {[1..k -> Fragments] : k \in 0..MaxFrags}}
        \cup {OfficeSuppliesLine, TwoStatementLines, TwelveAmounts, TieLine}

\* {"date":"2025-06-15","description":"Shop","amount":-45.99,"category":"Office costs","subcategory":"Supplies","confidence":95}
eFull ==
    <<"{","\"","d","a","t","e","\"",":","\"","2","0","2","5","-","0","6",
      "-","1","5","\"",",","\"","d","e","s","c","r","i","p","t","i","o","n",
      "\"",":","\"","S","h","o","p","\"",",","\"","a","m","o","u","n","t",
      "\"",":","-","4","5",".","9","9",",","\"","c","a","t","e","g","o","r",
      "y","\"",":","\"","O","f","f","i","c","e"," ","c","o","s","t","s",
      "\"",",","\"","s","u","b","c","a","t","e","g","o","r","y","\"",":",
      "\"","S","u","p","p","l","i","e","s","\"",",","\"","c","o","n","f",
      "i","d","e","n","c","e","\"",":","9","5","}">>

\* {"date":"2025-06-16","description":"Taxi","amount":12.5,"category":"Travel costs"}
eNoConfidence ==
    <<"{","\"","d","a","t","e","\"",":","\"","2","0","2","5","-","0","6",
      "-","1","6","\"",",","\"","d","e","s","c","r","i","p","t","i","o","n",
      "\"",":","\"","T","a","x","i","\"",",","\"","a","m","o","u","n","t",
      "\"",":","1","2",".","5",",","\"","c","a","t","e","g","o","r","y",
      "\"",":","\"","T","r","a","v","e","l"," ","c","o","s","t","s","\"","}">>

\* {"date":"2025-06-17","description":"Misc","amount":0,"category":"Unknown","confidence":0}
eUnknown ==
    <<"{","\"","d","a","t","e","\"",":","\"","2","0","2","5","-","0","6",
      "-","1","7","\"",",","\"","d","e","s","c","r","i","p","t","i","o","n",
      "\"",":","\"","M","i","s","c","\"",",","\"","a","m","o","u","n","t",
      "\"",":","0",",","\"","c","a","t","e","g","o","r","y","\"",":","\"",
      "U","n","k","n","o","w","n","\"",",","\"","c","o","n","f","i","d","e",
      "n","c","e","\"",":","0","}">>

\* {"date":"2025-06-18","description":"Void","amount":5}
eNoCategory ==
    <<"{","\"","d","a","t","e","\"",":","\"","2","0","2","5","-","0","6",
      "-","1","8","\"",",","\"","d","e","s","c","r","i","p","t","i","o","n",
      "\"",":","\"","V","o","i","d","\"",",","\"","a","m","o","u","n","t",
      "\"",":","5","}">>

\* {"date":"2025-06-19","description":"Gap","amount":null,"category":"Other expenses"}
eNullAmount ==
    <<"{","\"","d","a","t","e","\"",":","\"","2","0","2","5","-","0","6",
      "-","1","9","\"",",","\"","d","e","s","c","r","i","p","t","i","o","n",
      "\"",":","\"","G","a","p","\"",",","\"","a","m","o","u","n","t","\"",
      ":","n","u","l","l",",","\"","c","a","t","e","g","o","r","y","\"",":",
      "\"","O","t","h","e","r"," ","e","x","p","e","n","s","e","s","\"","}">>

\* {"date":"2025-06-20","description":"Food","amount":-8.4,"category":"Groceries","confidence":150}
eOffScale ==
    <<"{","\"","d","a","t","e","\"",":","\"","2","0","2","5","-","0","6",
      "-","2","0","\"",",","\"","d","e","s","c","r","i","p","t","i","o","n",
      "\"",":","\"","F","o","o","d","\"",",","\"","a","m","o","u","n","t",
      "\"",":","-","8",".","4",",","\"","c","a","t","e","g","o","r","y",
      "\"",":","\"","G","r","o","c","e","r","i","e","s","\"",",","\"","c",
      "o","n","f","i","d","e","n","c","e","\"",":","1","5","0","}">>

\* null
eNull ==
    <<"n","u","l","l">>

\* {"transactions":[
rOpen ==
    <<"{","\"","t","r","a","n","s","a","c","t","i","o","n","s","\"",":","[">>

\* ]}
rClose ==
    <<"]","}">>

\* ,]}
rCloseComma ==
    <<",","]","}">>

\* ```json\n
rFenceOpen ==
    <<Backtick,Backtick,Backtick,"j","s","o","n","\n">>

\* \n```
rFenceClose ==
    <<"\n",Backtick,Backtick,Backtick>>

\* Here is the analysis: 
rProse ==
    <<"H","e","r","e"," ","i","s"," ","t","h","e"," ","a","n","a","l","y",
      "s","i","s",":"," ">>

\* I cannot read this statement.
rNoBrace ==
    <<"I"," ","c","a","n","n","o","t"," ","r","e","a","d"," ","t","h","i",
      "s"," ","s","t","a","t","e","m","e","n","t",".">>

\* {}
rEmptyObject ==
    <<"{","}">>

\* {"transactions":5}
rNotAnArray ==
    <<"{","\"","t","r","a","n","s","a","c","t","i","o","n","s","\"",":","5",
      "}">>

\* {"transactions":[{]}
rBroken ==
    <<"{","\"","t","r","a","n","s","a","c","t","i","o","n","s","\"",":","[",
      "{","]","}">>

\* { "transactions" : [ ] , }
rSpacedKey ==
    <<"{"," ","\"","t","r","a","n","s","a","c","t","i","o","n","s","\""," ",
      ":"," ","["," ","]"," ",","," ","}">>

\* a response cut short after its first entry, one pair a line:
\* {"transactions": [
\* {
\* "date": "2025-06-15",
\* "description": "Shop",
\* "amount": -45.99,
\* "category": "Office costs"
\* }
rTruncatedLines ==
    <<"{","\"","t","r","a","n","s","a","c","t","i","o","n","s","\"",":"," ",
      "[","\n","{","\n","\"","d","a","t","e","\"",":"," ","\"","2","0","2",
      "5","-","0","6","-","1","5","\"",",","\n","\"","d","e","s","c","r",
      "i","p","t","i","o","n","\"",":"," ","\"","S","h","o","p","\"",",",
      "\n","\"","a","m","o","u","n","t","\"",":"," ","-","4","5",".","9",
      "9",",","\n","\"","c","a","t","e","g","o","r","y","\"",":"," ","\"",
      "O","f","f","i","c","e"," ","c","o","s","t","s","\"","\n","}">>

\* the entries a response lists
Entries == {eFull, eNoConfidence, eUnknown, eNoCategory, eNullAmount, eNull}

\* the number of entries of a response
MaxEntries == 2

\* a response in a code fence, as the model is given to answering
Fenced(body) == rFenceOpen \o body \o rFenceClose

\* the object of a response, closed as it should be or with a comma too
\* many
ResponseBody(es, close) == rOpen \o join(es, <<",">>) \o close

EntryLists(max) == UNION {[1..k -> Entries] : k \in 0..max}

\* the texts the model may answer with (the empty text apart): the object
\* alone; the object of at most one entry in a code fence, and after a
\* sentence; texts that hold no object or a broken one; and an entry whose
\* category and confidence are the model's own
ResponseTexts ==
    {ResponseBody(es, rClose) : es \in EntryLists(MaxEntries)}
        \cup {Fenced(ResponseBody(es, rClose)) : es \in EntryLists(1)}
        \cup {rProse \o ResponseBody(es, rCloseComma) : es \in EntryLists(1)}
        \cup {rNoBrace, rEmptyObject, rNotAnArray, rBroken, rSpacedKey,
              Fenced(rNoBrace), ResponseBody(<<eOffScale>>, rClose),
              rTruncatedLines}

\* the days the clock may show; the first is also the placeholder date of
\* the second tier
Days == {"2025-06-15", "2025-07-01"}

\* variable groups at rest
NoModel == hasApiKey = FALSE /\ modelOutcome = [kind |-> "none"] /\ modelCalls = 0
           /\ path = "none"
NoStore == stored = NoResult /\ pending = {} /\ replies = <<>>
NoTxs == txs = <<>>

-----------------------------------------------------------------------------
(* The fallback extractor run on its own: fallbackAnalysis(text) *)

InitFallback ==
    /\ text \in InputTexts
    /\ today \in Days
    /\ pc = "start"
    /\ result = NoResult
    /\ NoModel /\ NoStore /\ NoTxs

FallbackRun ==
    /\ pc = "start"
    /\ result' = fallbackAnalysis(text, today)
    /\ pc' = "done"
    /\ UNCHANGED <<text, today, hasApiKey, modelOutcome, modelCalls, path,
                   stored, pending, replies, txs>>

NextFallback == FallbackRun

SpecFallback == InitFallback /\ [][NextFallback]_vars

-----------------------------------------------------------------------------
(* The summary computations on their own: a summary of a transaction list *)

TxCategories == {"Office costs", "Travel costs", "Unknown"}
TxAmounts == {-4599, 0, 12550}

\* the length of a transaction list
MaxTxs == 3

\* well-typed transactions (interface Transaction)
SampleTransactions ==
    {[date |-> JStr("2025-06-15"), description |-> JStr("Shop"),
      amount |-> JNum(a), category |-> JStr(c), confidence |-> Num(65)]
        : a \in TxAmounts, c \in TxCategories}

TxLists == UNION {[1..k -> SampleTransactions] : k \in 0..MaxTxs}

InitSummary ==
    /\ txs \in TxLists
    /\ pc = "start"
    /\ result = NoResult
    /\ text = <<>> /\ today = "2025-06-15"
    /\ NoModel /\ NoStore

\* one of the three places computes the summary of txs
Summarize ==
    /\ pc = "start"
    /\ \E which \in {"parse", "fallback", "route"} :
          /\ result' = [transactions |-> txs,
                        summary |-> CASE which = "parse" -> parseSummary(txs)
                                      [] which = "fallback" -> fallbackSummary(txs)
                                      [] which = "route" -> routeSummary(txs)]
          /\ pc' = which
    /\ UNCHANGED <<text, today, hasApiKey, modelOutcome, modelCalls, path,
                   stored, pending, replies, txs>>

NextSummary == Summarize

SpecSummary == InitSummary /\ [][NextSummary]_vars

-----------------------------------------------------------------------------
(* The text normalizer on its own: cleanExtractedText(text), and            *)
(* cleanExtractedText of what it returned                                   *)

\* the characters short texts are written with
NormalizerChars == {"A", "b", " ", "\n"}

\* the length of a short text
MaxChars == 6

ShortTexts == UNION {[1..k -> NormalizerChars] : k \in 0..MaxChars}

\* the one-character tokens and the two-character tokens of a line
MaxSingles == 12
MaxDoubles == 6

\* a line of n one-character tokens c followed by m tokens "ab", a space
\* between two tokens
TokenLine(c, n, m) ==
    join([k \in 1..(n + m) |-> IF k <= n THEN <<c>> ELSE <<"a", "b">>], <<" ">>)

TokenLines ==
    {TokenLine(c, n, m) : c \in {"a", "A", "5"}, n \in 0..MaxSingles,
                          m \in 0..MaxDoubles}

\* E X A M P L E B A N K S
ExampleBanksLine ==
    <<"E"," ","X"," ","A"," ","M"," ","P"," ","L"," ","E"," ","B"," ","A"," ",
      "N"," ","K"," ","S">>

NormalizerTexts == ShortTexts \cup TokenLines \cup InputTexts \cup {ExampleBanksLine}

InitNormalize ==
    /\ text \in NormalizerTexts
    /\ today = "2025-06-15"
    /\ pc = "start"
    /\ result = NoResult
    /\ NoModel /\ NoStore /\ NoTxs

\* cleanExtractedText(text)
CleanOnce ==
    /\ pc = "start"
    /\ result' = [first |-> cleanExtractedText(text)]
    /\ pc' = "cleaned"
    /\ UNCHANGED <<text, today, hasApiKey, modelOutcome, modelCalls, path,
                   stored, pending, replies, txs>>

\* cleanExtractedText of the text cleanExtractedText returned
CleanAgain ==
    /\ pc = "cleaned"
    /\ result' = [first |-> result.first,
                  second |-> cleanExtractedText(result.first)]
    /\ pc' = "recleaned"
    /\ UNCHANGED <<text, today, hasApiKey, modelOutcome, modelCalls, path,
                   stored, pending, replies, txs>>

NextNormalize == CleanOnce \/ CleanAgain

SpecNormalize == InitNormalize /\ [][NextNormalize]_vars

-----------------------------------------------------------------------------
(* The date normalizer on its own: normalizeDate(dateMatch[0]) for the      *)
(* texts datePattern matches                                                *)

\* the digits date tokens are written with
DateDigits == {"0", "2", "5"}

\* the runs of at least lo and at most hi digits
DigitTexts(lo, hi) == UNION {[1..k -> DateDigits] : k \in lo..hi}

\* \d{1,2}[\/\-]\d{1,2}[\/\-]\d{2,4}
DateTokens ==
    {d \o <<a>> \o m \o <<b>> \o y :
        d \in DigitTexts(1, 2), a \in {"/", "-"},
        m \in DigitTexts(1, 2), b \in {"/", "-"},
        y \in DigitTexts(2, 4)}

InitDate ==
    /\ text \in DateTokens
    /\ today = "2025-06-15"
    /\ pc = "start"
    /\ result = NoResult
    /\ NoModel /\ NoStore /\ NoTxs

\* date: this.normalizeDate(dateMatch[0])
NormalizeDate ==
    /\ pc = "start"
    /\ DateEnd(text, 1) = Len(text) + 1
    /\ result' = [date |-> normalizeDate(text)]
    /\ pc' = "done"
    /\ UNCHANGED <<text, today, hasApiKey, modelOutcome, modelCalls, path,
                   stored, pending, replies, txs>>

NextDate == NormalizeDate

SpecDate == InitDate /\ [][NextDate]_vars

-----------------------------------------------------------------------------
(* The response parser on its own: parseAnalysisResult of a well-formed     *)
(* response, and of the same response with a comma too many.  txs holds    *)
(* the texts of the entries the response lists.                            *)

\* an entry with a comma before its closing brace
EntryWithComma(e) ==
    IF e[Len(e)] = "}" THEN SubSeq(e, 1, Len(e) - 1) \o <<",", "}">> ELSE e

\* the response that lists the entries es, with a comma too many at the
\* place given
WithComma(es, place) ==
    CASE place = "bracket" -> ResponseBody(es, <<",", "]", "}">>)
      [] place = "brace" -> ResponseBody(es, <<"]", ",", "}">>)
      [] place = "spaced" ->
            ResponseBody(es, <<",", " ", "]", " ", ",", "\n", "}">>)
      [] place = "entries" ->
            ResponseBody([k \in 1..Len(es) |-> EntryWithComma(es[k])], rClose)

CommaPlaces == {"bracket", "brace", "spaced", "entries"}

InitParse ==
    /\ txs \in EntryLists(MaxEntries)
    /\ text = ResponseBody(txs, rClose)
    /\ \E place \in CommaPlaces :
          modelOutcome = [kind |-> "text", text |-> WithComma(txs, place)]
    /\ today = "2025-06-15"
    /\ hasApiKey = TRUE /\ modelCalls = 0 /\ path = "none"
    /\ pc = "start"
    /\ result = NoResult
    /\ NoStore

\* this.parseAnalysisResult(analysisText) of the well-formed response
ParseWellFormed ==
    /\ pc = "start"
    /\ result' = [plain |-> parseAnalysisResult(text)]
    /\ pc' = "parsed"
    /\ UNCHANGED <<text, today, hasApiKey, modelOutcome, modelCalls, path,
                   stored, pending, replies, txs>>

\* this.parseAnalysisResult(analysisText) of the response with the comma
ParseWithComma ==
    /\ pc = "parsed"
    /\ result' = [plain |-> result.plain,
                  repaired |-> parseAnalysisResult(modelOutcome.text)]
    /\ pc' = "reparsed"
    /\ UNCHANGED <<text, today, hasApiKey, modelOutcome, modelCalls, path,
                   stored, pending, replies, txs>>

NextParse == ParseWellFormed \/ ParseWithComma

SpecParse == InitParse /\ [][NextParse]_vars

-----------------------------------------------------------------------------
(* The categoriser run on its own: guessCategory(description).  txs holds    *)
(* the words the description is written with, text the description.         *)

wordLtd == <<"l","t","d">>
wordTaxi == <<"t","a","x","i">>

\* the keywords of the six rules, in the order of the rules
RuleKeywords ==
    << {kwOffice, kwSupplies, kwStationery}, {kwTravel, kwHotel, kwTransport},
       {kwSoftware, kwComputer, kwEquipment},
       {kwMarketing, kwAdvertising, kwEntertainment},
       {kwLegal, kwAccountant, kwInsurance}, {kwSalary, kwStaff, kwEmployee} >>

\* the words of a description: the keywords and two words that are none
DescriptionWords == UNION Range(RuleKeywords) \cup {wordLtd, wordTaxi}

\* the ways a word is written: hotel, HOTEL, Hotel
WordForms == {"lower", "upper", "capital"}

ToUpperChar(c) ==
    IF IsLower(c) THEN UpperLetters[CHOOSE i \in 1..26 : LowerLetters[i] = c]
    ELSE c

Written(piece) ==
    [i \in 1..Len(piece.word) |->
        IF piece.form = "upper" \/ (piece.form = "capital" /\ i = 1)
        THEN ToUpperChar(piece.word[i]) ELSE piece.word[i]]

\* the words of a description, at most
MaxWords == 2

WordLists ==
    UNION {[1..k -> [word : DescriptionWords, form : WordForms]] : k \in 0..MaxWords}

DescriptionOf(pieces) == join([k \in 1..Len(pieces) |-> Written(pieces[k])], <<" ">>)

InitCategory ==
    /\ txs \in WordLists
    /\ text = DescriptionOf(txs)
    /\ today = "2025-06-15"
    /\ pc = "start"
    /\ result = NoResult
    /\ NoModel /\ NoStore

\* category: this.guessCategory(description)
Categorize ==
    /\ pc = "start"
    /\ result' = [category |-> guessCategory(text)]
    /\ pc' = "done"
    /\ UNCHANGED <<text, today, hasApiKey, modelOutcome, modelCalls, path,
                   stored, pending, replies, txs>>

NextCategory == Categorize

SpecCategory == InitCategory /\ [][NextCategory]_vars

-----------------------------------------------------------------------------
(* analyzeDocument: one run, from the call to the return.  pc is the point  *)
(* the run is at; path tells the model path from the fallback path.         *)

\* the texts analysed
AnalyzeTexts == {<<>>, fPounds, OfficeSuppliesLine}

\* the model calls a run may make before the model stops answering
MaxModelCalls == 2

\* (mutant) an error of the run escapes to the caller
CatchOfNone(point) == "failed"

\* (mutant) an error of the run starts the model call again
CatchOfRetry(point) == "calling"

\* The try block of analyzeDocument encloses the model call and the parse:
\* an error thrown at either point goes to the catch, which falls back.
CatchOf(point) == "fallback"

InitAnalyze ==
    /\ text \in AnalyzeTexts
    /\ today \in Days
    /\ hasApiKey \in BOOLEAN
    /\ modelOutcome = [kind |-> "none"]
    /\ modelCalls = 0
    /\ path = "none"
    /\ pc = "start"
    /\ result = NoResult
    /\ NoStore /\ NoTxs

\* (mutant) a run without a key goes on to the model call
NoApiKeyCallsModel ==
    /\ pc = "start" /\ ~hasApiKey
    /\ pc' = "calling" /\ path' = "model"
    /\ UNCHANGED <<text, today, hasApiKey, modelOutcome, modelCalls, result,
                   stored, pending, replies, txs>>

\* if (!this.hasApiKey || !this.gemini) return await this.fallbackAnalysis(...)
NoApiKey ==
    /\ pc = "start" /\ ~hasApiKey
    /\ pc' = "fallback" /\ path' = "fallback"
    /\ UNCHANGED <<text, today, hasApiKey, modelOutcome, modelCalls, result,
                   stored, pending, replies, txs>>

\* the run enters the try block and awaits model.generateContent
CallModel ==
    /\ pc = "start" /\ hasApiKey
    /\ pc' = "calling" /\ path' = "model"
    /\ UNCHANGED <<text, today, hasApiKey, modelOutcome, modelCalls, result,
                   stored, pending, replies, txs>>

\* the model answers with one of the texts given
RespondsWith(texts) ==
    /\ pc = "calling" /\ modelCalls < MaxModelCalls
    /\ \E analysisText \in texts :
          modelOutcome' = [kind |-> "text", text |-> analysisText]
    /\ modelCalls' = modelCalls + 1
    /\ pc' = "responded"
    /\ UNCHANGED <<text, today, hasApiKey, path, result,
                   stored, pending, replies, txs>>

\* the model answers with a text, which may be empty
ModelResponds == RespondsWith(ResponseTexts \cup {<<>>})

\* the model call throws
ModelThrows ==
    /\ pc = "calling" /\ modelCalls < MaxModelCalls
    /\ modelOutcome' = [kind |-> "throw"]
    /\ modelCalls' = modelCalls + 1
    /\ pc' = CatchOf("calling") /\ path' = "fallback"
    /\ UNCHANGED <<text, today, hasApiKey, result, stored, pending, replies, txs>>

\* if (!analysisText) return await this.fallbackAnalysis(extractedText)
EmptyResponse ==
    /\ pc = "responded" /\ modelOutcome.text = <<>>
    /\ pc' = "fallback" /\ path' = "fallback"
    /\ UNCHANGED <<text, today, hasApiKey, modelOutcome, modelCalls, result,
                   stored, pending, replies, txs>>

\* what follows the parse: its value is returned, or its error is caught
AfterParse(outcome) ==
    IF outcome.ok
    THEN result' = outcome.value /\ pc' = "done" /\ UNCHANGED path
    ELSE pc' = CatchOf("responded") /\ path' = "fallback" /\ UNCHANGED result

\* return this.parseAnalysisResult(analysisText)
Parse ==
    /\ pc = "responded" /\ modelOutcome.text # <<>>
    /\ AfterParse(parseAnalysisResult(modelOutcome.text))
    /\ UNCHANGED <<text, today, hasApiKey, modelOutcome, modelCalls,
                   stored, pending, replies, txs>>

\* return await this.fallbackAnalysis(extractedText)
Fallback ==
    /\ pc = "fallback"
    /\ result' = fallbackAnalysis(text, today)
    /\ pc' = "done"
    /\ UNCHANGED <<text, today, hasApiKey, modelOutcome, modelCalls, path,
                   stored, pending, replies, txs>>

NextAnalyze ==
    \/ NoApiKey \/ CallModel \/ ModelResponds \/ ModelThrows
    \/ EmptyResponse \/ Parse \/ Fallback

SpecAnalyze == InitAnalyze /\ [][NextAnalyze]_vars

-----------------------------------------------------------------------------
(* routes/analysis.ts over the stored <fileId>.analysis.json of one         *)
(* document.  stored is the content of the file; pending holds the         *)
(* requests the server has received and not yet handled; replies is the    *)
(* log of the requests handled, in order.                                  *)

\* JSON.stringify of a value: NaN is written null
StoredValue(v) == IF v = JNaN THEN JNull ELSE v

\* JSON.stringify of an object: a key whose value is undefined is left out
StoredObject(o) ==
    [k \in {x \in DOMAIN o : o[x] # JUndefined} |-> StoredValue(o[k])]

StoredSummary(summary) ==
    [summary EXCEPT !.totalAmount = StoredValue(@),
                    !.categoryAmounts = [k \in DOMAIN @ |-> StoredValue(@[k])]]

\* what JSON.parse(fs.readFileSync(resultPath)) gives back after
\* fs.writeFileSync(resultPath, JSON.stringify(analysisResult))
StoredForm(analysisResult) ==
    [transactions |-> [i \in 1..Len(analysisResult.transactions) |->
                          StoredObject(analysisResult.transactions[i])],
     summary |-> StoredSummary(analysisResult.summary)]

\* parseInt of a text: the integer its sign and leading digits stand for,
\* JNaN when it has no leading digit
ParseIntAt(cs, a) ==
    IF DigitsEnd(cs, a) = a THEN JNaN
    ELSE JNum((IF At(cs, 1) = "-" THEN -1 ELSE 1)
              * DigitsValue(SubSeq(cs, a, DigitsEnd(cs, a) - 1), 0))
parseInt(cs) == ParseIntAt(cs, IF At(cs, 1) \in {"+", "-"} THEN 2 ELSE 1)

\* (mutant) the correction lands on the transaction after the one asked for
CorrectedTransactionsNext(transactions, index, category, subcategory) ==
    [i \in 1..Len(transactions) |->
        IF i = (IF index + 2 <= Len(transactions) THEN index + 2 ELSE 1)
        THEN WithKey(transactions[i], "category", category)
        ELSE transactions[i]]

\* (mutant) the subcategory is written whether or not one was supplied
CorrectedTransactionsAnySubcategory(transactions, index, category, subcategory) ==
    [i \in 1..Len(transactions) |->
        IF i = index + 1
        THEN WithKey(WithKey(transactions[i], "category", category),
                     "subcategory", subcategory)
        ELSE transactions[i]]

\* analysisResult.transactions[index].category = category;
\* if (subcategory) analysisResult.transactions[index].subcategory = subcategory
CorrectedTransactions(transactions, index, category, subcategory) ==
    [i \in 1..Len(transactions) |->
        IF i = index + 1
        THEN IF Truthy(subcategory)
             THEN WithKey(WithKey(transactions[i], "category", category),
                          "subcategory", subcategory)
             ELSE WithKey(transactions[i], "category", category)
        ELSE transactions[i]]

\* analysisResult.summary = {...}, and the write of the file
CorrectedResult(transactions) ==
    StoredForm([transactions |-> transactions,
                summary |-> routeSummary(transactions)])

\* router.put('/transaction/:fileId/:transactionIndex') from the check of
\* the index on: the status of the reply and the content of the file
PutOutcome(file, index, req) ==
    IF index # JNaN /\ (index.n < 0 \/ index.n >= Len(file.transactions))
    THEN [status |-> 400, stored |-> file]
    ELSE IF index = JNaN
    THEN [status |-> 500, stored |-> file]
    ELSE [status |-> 200,
          stored |-> CorrectedResult(
              CorrectedTransactions(file.transactions, index.n,
                                    req.category, req.subcategory))]

\* the whole handler: the file is missing, or it is read and corrected
putTransaction(file, req) ==
    IF file = NoResult THEN [status |-> 404, stored |-> file]
    ELSE PutOutcome(file, parseInt(req.transactionIndex), req)

PutRequest(transactionIndex, category, subcategory) ==
    [route |-> "put", transactionIndex |-> transactionIndex,
     category |-> category, subcategory |-> subcategory]

\* the correction requests a client sends: of the first transaction, of
\* the second and without a category, past the end, and with no number
CorrectionRequests ==
    {PutRequest(<<"0">>, JStr("Travel costs"), JStr("Fares")),
     PutRequest(<<"1">>, JUndefined, JUndefined),
     PutRequest(<<"9">>, JStr("Unknown"), JUndefined),
     PutRequest(<<"x">>, JStr("Travel costs"), JUndefined)}

\* the texts the model answers with while requests are served
ServedResponseTexts ==
    {ResponseBody(<<eFull, eUnknown>>, rClose), rEmptyObject, <<>>}

\* the requests the server receives in all
MaxRequests == 3

Init ==
    /\ text = <<>>
    /\ today = "2025-06-15"
    /\ hasApiKey \in BOOLEAN
    /\ modelOutcome = [kind |-> "none"]
    /\ modelCalls = 0
    /\ path = "none"
    /\ pc = "idle"
    /\ result = NoResult
    /\ NoStore /\ NoTxs

\* the requests received so far: those waiting, the analyze run under
\* way, and those answered
Received ==
    Cardinality(pending) + Len(replies) + (IF pc = "idle" THEN 0 ELSE 1)

\* a correction request reaches the server
Submit ==
    /\ Received < MaxRequests
    /\ \E req \in CorrectionRequests :
          req \notin pending /\ pending' = pending \cup {req}
    /\ UNCHANGED <<text, today, hasApiKey, modelOutcome, modelCalls, path, pc,
                   result, stored, replies, txs>>

\* router.post('/analyze/:fileId') up to the call of analyzeDocument: the
\* text of the document is extracted and a service is made
StartAnalysis ==
    /\ Received < MaxRequests
    /\ pc = "idle"
    /\ pc' = "start"
    /\ UNCHANGED <<text, today, hasApiKey, modelOutcome, modelCalls, path,
                   result, stored, pending, replies, txs>>

\* router.post('/analyze/:fileId') after analyzeDocument has returned: the
\* result is written to the file and sent
Store ==
    /\ pc = "done"
    /\ stored' = StoredForm(result)
    /\ replies' = Append(replies, [route |-> "analyze", status |-> 200])
    /\ pc' = "idle"
    /\ modelOutcome' = [kind |-> "none"] /\ modelCalls' = 0 /\ path' = "none"
    /\ result' = NoResult
    /\ UNCHANGED <<text, today, hasApiKey, pending, txs>>

\* what the handler of a correction leaves: the file and the log
AfterPut(req, outcome) ==
    /\ stored' = outcome.stored
    /\ replies' = Append(replies, [route |-> "put", status |-> outcome.status,
                                   request |-> req,
                                   alone |-> pending = {req},
                                   during |-> pc # "idle"])

\* router.put('/transaction/:fileId/:transactionIndex'): the handler has no
\* await, so it runs from the read of the file to its write in one step
Correct ==
    /\ \E req \in pending :
          /\ req.route = "put"
          /\ AfterPut(req, putTransaction(stored, req))
          /\ pending' = pending \ {req}
    /\ UNCHANGED <<text, today, hasApiKey, modelOutcome, modelCalls, path, pc,
                   result, txs>>

\* the model answers a run started by a request
ModelAnswers == RespondsWith(ServedResponseTexts)

Next ==
    \/ Submit \/ StartAnalysis \/ Store \/ Correct
    \/ NoApiKey \/ CallModel \/ ModelAnswers \/ ModelThrows
    \/ EmptyResponse \/ Parse \/ Fallback

Spec == Init /\ [][Next]_vars

-----------------------------------------------------------------------------
(* Claims about the fallback extractor, under SpecFallback *)

NoDigit(s) == \A i \in 1..Len(s) : ~IsDigit(s[i])

\* C2: fallbackAnalysis never fails and never returns an empty transaction
\* list: whatever the text (the empty string, a text with no digit, a text
\* whose only amounts are 0 or 10,000 included), the run ends with a result
\* of at least one transaction.
C2_FallbackNeverEmpty ==
    pc = "done" => result # NoResult /\ Len(result.transactions) >= 1

\* a text whose only amounts are 0 and 10,000 has been analysed
C2_Witness ==
    /\ pc = "done"
    /\ text = fZero \o fSpace \o fTenThousand
    /\ Len(result.transactions) = 3

\* C3 as stated: for every input text the fallback's
\* summary.totalTransactions is at least 3.
C3_AtLeastThree ==
    pc = "done" => result.summary.totalTransactions >= 3

\* C3 as amended: for every input text the fallback's
\* summary.totalTransactions is at least 1, and it is exactly 3 for a text
\* without any digit (the empty string included).
C3_AtLeastOne ==
    pc = "done" =>
        /\ result.summary.totalTransactions >= 1
        /\ NoDigit(text) => result.summary.totalTransactions = 3

\* the empty string has been analysed
C3_Witness ==
    pc = "done" /\ text = <<>> /\ result.summary.totalTransactions = 3

\* C10: on the line `05/06/2025   OFFICE SUPPLIES LTD   £45.99` the fallback
\* returns exactly one transaction, dated 2025-06-05, of category Office
\* costs, of an amount of absolute value 45.99 and of confidence 65.
C10_OfficeSuppliesLine ==
    (pc = "done" /\ text = OfficeSuppliesLine) =>
        /\ Len(result.transactions) = 1
        /\ LET t == result.transactions[1]
           IN  /\ t.date = JStr("2025-06-05")
               /\ t.category = JStr("Office costs")
               /\ t.amount.t = "num" /\ Abs(t.amount.n) = 4599
               /\ t.confidence = Num(65)

-----------------------------------------------------------------------------
(* Claims about the summary, under SpecSummary *)

RECURSIVE SumOfCounts(_, _)
\* the sum of f[k] over the keys k of S
SumOfCounts(f, S) ==
    IF S = {} THEN 0
    ELSE LET k == CHOOSE x \in S : TRUE
         IN  f[k] + SumOfCounts(f, S \ {k})

RECURSIVE SumOfAmounts(_, _)
\* the sum of the numbers f[k] over the keys k of S
SumOfAmounts(f, S) ==
    IF S = {} THEN 0
    ELSE LET k == CHOOSE x \in S : TRUE
         IN  f[k].n + SumOfAmounts(f, S \ {k})

RECURSIVE SumOfMagnitudes(_)
SumOfMagnitudes(ts) ==
    IF ts = <<>> THEN 0
    ELSE Abs(ts[1].amount.n) + SumOfMagnitudes(Tail(ts))

\* C9: for any list of transactions the computed summary has
\* totalTransactions equal to the length of the list, categoryBreakdown
\* counts that add up to totalTransactions, totalAmount equal to the sum of
\* the absolute values of the amounts, categoryAmounts that add up to
\* totalAmount, and categorizedTransactions equal to the number of
\* transactions whose category is not Unknown; this for each of the three
\* places that compute a summary.
C9_SummaryArithmetic ==
    pc \in {"parse", "fallback", "route"} =>
        LET s == result.summary
        IN  /\ s.totalTransactions = Len(txs)
            /\ SumOfCounts(s.categoryBreakdown, DOMAIN s.categoryBreakdown)
                   = s.totalTransactions
            /\ s.totalAmount = JNum(SumOfMagnitudes(txs))
            /\ \A k \in DOMAIN s.categoryAmounts : s.categoryAmounts[k].t = "num"
            /\ JNum(SumOfAmounts(s.categoryAmounts, DOMAIN s.categoryAmounts))
                   = s.totalAmount
            /\ s.categorizedTransactions =
                   Cardinality({i \in 1..Len(txs) :
                                   txs[i].category # JStr("Unknown")})

\* the correction route has summarized three transactions of which one is
\* Unknown, with an expense and a credit among them
C9_Witness ==
    /\ pc = "route"
    /\ Len(txs) = 3
    /\ txs[1].category = JStr("Unknown") /\ txs[2].category = JStr("Office costs")
    /\ txs[2].amount = JNum(-4599) /\ txs[3].amount = JNum(12550)
    /\ result.summary.categorizedTransactions = 2

-----------------------------------------------------------------------------
(* Claims about analyzeDocument, under SpecAnalyze *)

SummaryFields ==
    {"totalTransactions", "categorizedTransactions", "categoryBreakdown",
     "totalAmount", "categoryAmounts"}

\* interface AnalysisResult
IsAnalysisResult(r) ==
    /\ DOMAIN r = {"transactions", "summary"}
    /\ DOMAIN r.summary = SummaryFields
    /\ r.summary.totalTransactions = Len(r.transactions)

\* C4: analyzeDocument is total: whatever the text and whatever the model
\* call comes to (a text, the empty text, an error thrown), no error
\* escapes (the run is at one of its points or has returned), what it
\* returns is an AnalysisResult, and when the model call threw it is the
\* result of fallbackAnalysis for the same text.
C4_AnalyzeTotal ==
    /\ pc \in {"start", "calling", "responded", "fallback", "done"}
    /\ pc = "done" => IsAnalysisResult(result)
    /\ (pc = "done" /\ modelOutcome.kind = "throw") =>
           result = fallbackAnalysis(text, today)

\* the model call threw and the run returned the fallback's result for the
\* line of the scenario
C4_Witness ==
    /\ pc = "done" /\ modelOutcome.kind = "throw" /\ modelCalls = 1
    /\ text = OfficeSuppliesLine
    /\ Len(result.transactions) = 1

\* C5: when the text of the model's response holds no opening brace,
\* analyzeDocument returns what fallbackAnalysis returns for the same text.
C5_NoBraceDemotes ==
    (/\ pc = "done" /\ modelOutcome.kind = "text"
     /\ IndexOfChar(modelOutcome.text, "{", 1) = 0) =>
        result = fallbackAnalysis(text, today)

\* the model answered in prose, fenced, and the run returned the fallback's
\* demonstration transactions for the empty text
C5_Witness ==
    /\ pc = "done" /\ modelOutcome.kind = "text"
    /\ modelOutcome.text = Fenced(rNoBrace)
    /\ text = <<>> /\ result.transactions = DemoTransactions(today)

\* C6 as stated: analyzeDocument never returns a result with an empty list
\* of transactions (a response that parses but keeps no transaction makes
\* the parser fail and the run fall back).
C6_NeverEmpty ==
    pc = "done" => Len(result.transactions) >= 1

\* C8: a run calls the model at most once; once on the fallback path it
\* stays there and does not come back to the model call or the parse; and
\* a run that ends on the fallback path ends with the fallback's result.
C8_NoRetry ==
    /\ [](modelCalls <= 1)
    /\ [][path = "fallback" =>
             path' = "fallback" /\ pc' \notin {"calling", "responded"}]_vars
    /\ [](pc = "done" /\ path = "fallback" =>
             result = fallbackAnalysis(text, today))

\* the parse threw after the one model call and the run ended on the
\* fallback path
C8_Witness ==
    /\ pc = "done" /\ path = "fallback" /\ modelCalls = 1
    /\ modelOutcome.kind = "text" /\ modelOutcome.text = rBroken
    /\ result = fallbackAnalysis(text, today)

-----------------------------------------------------------------------------
(* Claims about the stored result, under Spec *)

\* t.category || 'Unknown' read off a stored transaction
StoredCategory(t) ==
    IF Truthy(Get(t, "category")) THEN PropertyKey(Get(t, "category"))
    ELSE "Unknown"

RECURSIVE SumUnder(_, _)
\* the sum of the magnitudes of the amounts of the transactions at the
\* positions of I
SumUnder(ts, I) ==
    IF I = {} THEN 0
    ELSE LET i == CHOOSE x \in I : TRUE
         IN  Abs(ts[i].amount.n) + SumUnder(ts, I \ {i})

\* the total of the positions of I as the file holds it: null when an
\* amount among them is no number
StoredTotal(ts, I) ==
    IF \E i \in I : MathAbs(Get(ts[i], "amount")) = JNaN THEN JNull
    ELSE JNum(SumUnder(ts, I))

\* the summary of a list of transactions, from scratch
RecomputedSummary(ts) ==
    [totalTransactions |-> Len(ts),
     categorizedTransactions |->
         Cardinality({i \in 1..Len(ts) :
             Truthy(Get(ts[i], "category"))
                 /\ Get(ts[i], "category") # JStr("Unknown")}),
     categoryBreakdown |->
         [k \in {StoredCategory(ts[i]) : i \in 1..Len(ts)} |->
             Cardinality({i \in 1..Len(ts) : StoredCategory(ts[i]) = k})],
     totalAmount |-> StoredTotal(ts, 1..Len(ts)),
     categoryAmounts |->
         [k \in {StoredCategory(ts[i]) : i \in 1..Len(ts)} |->
             StoredTotal(ts, {i \in 1..Len(ts) : StoredCategory(ts[i]) = k})]]

\* C1: after any sequence of analyze runs and corrections, the summary of
\* the stored result equals the summary recomputed from scratch from the
\* stored transactions (all five fields), whichever of the model path, the
\* fallback path and the correction route wrote it.
C1_SummaryOfStored ==
    stored # NoResult => stored.summary = RecomputedSummary(stored.transactions)

\* a model-path result has been stored and then corrected
C1_Witness ==
    /\ stored # NoResult
    /\ Len(replies) = 2
    /\ replies[1].route = "analyze" /\ replies[2].route = "put"
    /\ replies[2].status = 200
    /\ hasApiKey /\ Len(stored.transactions) = 2
    /\ "Travel costs" \in DOMAIN stored.summary.categoryBreakdown

\* the position in the log of the last analyze run stored, or 0
LastAnalysis(log) ==
    IF \E k \in 1..Len(log) : log[k].route = "analyze"
    THEN CHOOSE k \in 1..Len(log) :
             /\ log[k].route = "analyze"
             /\ \A j \in (k + 1)..Len(log) : log[j].route # "analyze"
    ELSE 0

\* the corrections of the transaction at 0-based position index that went
\* through after the last analyze run was stored
PutsTo(log, index) ==
    {k \in (LastAnalysis(log) + 1)..Len(log) :
        /\ log[k].route = "put" /\ log[k].status = 200
        /\ parseInt(log[k].request.transactionIndex) = JNum(index)}

\* the last of a non-empty set of positions
Latest(K) == CHOOSE k \in K : \A j \in K : j <= k

\* C7: corrections are atomic read-modify-writes of the stored result:
\* whatever the order in which concurrent corrections are handled, each
\* transaction carries the category of the last correction made to it since
\* the result was last written by an analyze run, and the summary is the
\* one of the stored transactions (no correction is lost).
C7_NoLostUpdate ==
    stored # NoResult =>
        /\ \A i \in 1..Len(stored.transactions) :
              PutsTo(replies, i - 1) # {} =>
                  Get(stored.transactions[i], "category")
                      = replies[Latest(PutsTo(replies, i - 1))].request.category
        /\ stored.summary = RecomputedSummary(stored.transactions)

\* two corrections of different transactions were in flight together, both
\* went through, and the stored result holds both
C7_Witness ==
    /\ stored # NoResult /\ pending = {}
    /\ Len(replies) = 3
    /\ replies[2].route = "put" /\ replies[2].status = 200
    /\ replies[3].route = "put" /\ replies[3].status = 200
    /\ ~replies[2].alone
    /\ replies[2].request.transactionIndex = <<"1">>
    /\ replies[3].request.transactionIndex = <<"0">>
    /\ stored.transactions[1].category = JStr("Travel costs")
    /\ "category" \notin DOMAIN stored.transactions[2]
    /\ stored.summary.categoryBreakdown["Unknown"] = 1

-----------------------------------------------------------------------------
(* Claims about the text normalizer, under SpecNormalize *)

\* the number of lines of a text
LineCount(s) == Cardinality({i \in 1..Len(s) : s[i] = "\n"}) + 1

\* C11 as stated: the normalizer preserves line structure: its output has
\* as many lines as its input.
C11_LinesPreserved ==
    pc = "cleaned" => LineCount(result.first) = LineCount(text)

\* C12: the normalizer is idempotent: normalizing what it returned gives
\* the same text again.
C12_Idempotent ==
    pc = "recleaned" => result.second = result.first

\* a line of eleven one-character tokens was joined by the first pass and
\* left alone by the second
C12_Witness ==
    /\ pc = "recleaned"
    /\ text = TokenLine("a", 11, 0)
    /\ result.first = [k \in 1..11 |-> "a"]
    /\ result.second = result.first

\* what the claim says of a line of tokens: joined without separator when
\* it has more than 10 tokens of which more than half are one character
\* long, left as it is otherwise
JoinedAtThreshold(tokens) ==
    IF /\ Len(tokens) > 10
       /\ 2 * Cardinality({k \in 1..Len(tokens) : Len(tokens[k]) = 1}) > Len(tokens)
    THEN Concat(tokens) ELSE join(tokens, <<" ">>)

\* C13 as stated: a line is joined exactly at that threshold, so the line
\* E X A M P L E B A N K S becomes the one token EXAMPLEBANKS and a line of
\* 9 tokens of which 3 are one character long keeps its tokens.
C13_JoinThreshold ==
    (pc = "cleaned" /\ text \in TokenLines \cup {ExampleBanksLine}) =>
        result.first = JoinedAtThreshold(split(text, " "))

-----------------------------------------------------------------------------
(* Claims about the date normalizer, under SpecDate *)

\* YYYY-MM-DD: four digits, two digits and two digits, hyphens between
IsIsoDate(d) ==
    /\ Len(d) = 10
    /\ d[5] = "-" /\ d[8] = "-"
    /\ \A i \in {1, 2, 3, 4, 6, 7, 9, 10} : IsDigit(d[i])

\* a run of one or two digits with a zero before a single digit
ZeroPadded(p) == IF Len(p) = 1 THEN <<"0">> \o p ELSE p

\* the three runs of digits of a date token
DateFields(t) == split([i \in 1..Len(t) |-> IF t[i] = "/" THEN "-" ELSE t[i]], "-")

\* C14 as stated: for every token the date pattern accepts, normalizeDate
\* returns a text of the form YYYY-MM-DD whose day and month are the
\* token's, zero-padded, and whose year is 20yy for a two-digit year yy; so
\* 05/06/25 and 5-6-2025 both give 2025-06-05.
C14_IsoDate ==
    pc = "done" =>
        /\ IsIsoDate(result.date)
        /\ SubSeq(result.date, 9, 10) = ZeroPadded(DateFields(text)[1])
        /\ SubSeq(result.date, 6, 7) = ZeroPadded(DateFields(text)[2])
        /\ Len(DateFields(text)[3]) = 2 =>
               SubSeq(result.date, 1, 4) = <<"2", "0">> \o DateFields(text)[3]
        /\ text \in {<<"0","5","/","0","6","/","2","5">>,
                      <<"5","-","6","-","2","0","2","5">>} =>
               result.date = <<"2","0","2","5","-","0","6","-","0","5">>

-----------------------------------------------------------------------------
(* Claims about the transactions analyzeDocument returns, under SpecAnalyze *)

\* the nine labels of the taxonomy
TaxonomyLabels ==
    {"Office costs", "Travel costs", "Clothing expenses", "Staff costs",
     "Things you resell", "Legal and financial costs",
     "Marketing and entertainment", "Equipment and software", "Other expenses"}

\* C15 as stated: every transaction of every result analyzeDocument returns
\* has a category that is one of the nine labels or Unknown, whatever the
\* model answered.
C15_CategoryInTaxonomy ==
    pc = "done" =>
        \A i \in 1..Len(result.transactions) :
            Get(result.transactions[i], "category")
                \in {JStr(l) : l \in TaxonomyLabels \cup {"Unknown"}}

\* C16 as stated: every transaction of every result analyzeDocument returns
\* has a confidence that is a whole number from 0 to 100, whatever
\* confidence the model answered with.
C16_ConfidenceInRange ==
    pc = "done" =>
        \A i \in 1..Len(result.transactions) :
            LET confidence == Get(result.transactions[i], "confidence")
            IN  /\ confidence.t = "num"
                /\ confidence.n % 100 = 0
                /\ confidence.n >= 0 /\ confidence.n <= 100 * 100

-----------------------------------------------------------------------------
(* Claims about the stored transactions, under Spec *)

\* the fields a stored transaction has to hold
RequiredFields == {"date", "description", "amount", "category", "confidence"}

\* C17 as stated: after any sequence of analyze runs and corrections (a
\* correction without a category included), every stored transaction has
\* a date, a description, an amount, a category and a confidence that are
\* not null, and its category is not empty.
C17_StoredComplete ==
    stored # NoResult =>
        \A i \in 1..Len(stored.transactions) :
            /\ \A f \in RequiredFields :
                   Get(stored.transactions[i], f) \notin {JUndefined, JNull}
            /\ Get(stored.transactions[i], "category") # JStr("")

-----------------------------------------------------------------------------
(* Claims about the response parser, under SpecParse *)

\* C18: a comma too many before a closing brace or bracket of a well-formed
\* response does not change what the parser gives: it gives what it gives
\* for the well-formed response, transactions and summary, and it succeeds
\* on every list of object entries.
C18_CommaRepaired ==
    pc = "reparsed" =>
        /\ result.repaired = result.plain
        /\ (\A k \in 1..Len(txs) : txs[k] # eNull) => result.repaired.ok

\* a response of two entries with a comma before its closing bracket was
\* parsed to the two transactions of the well-formed response
C18_Witness ==
    /\ pc = "reparsed"
    /\ txs = <<eFull, eNoConfidence>>
    /\ modelOutcome.text = WithComma(txs, "bracket")
    /\ result.repaired.ok
    /\ Len(result.repaired.value.transactions) = 2
    /\ result.repaired.value.transactions = result.plain.value.transactions

\* a value is a text that is not empty
NonEmptyText(v) == v.t = "str" /\ v.s # ""

\* the entry of a response has a non-empty date, description and category
\* and an amount that is neither null nor undefined
IsCompleteEntry(v) ==
    /\ v.t = "obj"
    /\ NonEmptyText(Get(v.o, "date")) /\ NonEmptyText(Get(v.o, "description"))
    /\ NonEmptyText(Get(v.o, "category"))
    /\ Get(v.o, "amount") \notin {JNull, JUndefined}

\* the complete entries among the entries listed, as values, in order
CompleteEntries(es) ==
    SelectSeq([k \in 1..Len(es) |-> JSONParse(es[k]).v], IsCompleteEntry)

\* the fields an entry came with
SameButConfidence(t, v) ==
    \A f \in DOMAIN v.o \ {"confidence"} : Get(t, f) = v.o[f]

\* C19 as stated: the parser's output holds exactly the entries of the
\* transactions array that have a non-empty date, description and category
\* and an amount that is neither null nor undefined, in their order; an
\* entry of amount 0 is kept.
C19_KeepsCompleteEntries ==
    pc = "parsed" =>
        /\ result.plain.ok
        /\ Len(result.plain.value.transactions) = Len(CompleteEntries(txs))
        /\ \A k \in 1..Len(CompleteEntries(txs)) :
               SameButConfidence(result.plain.value.transactions[k],
                                 CompleteEntries(txs)[k])

-----------------------------------------------------------------------------
(* Claims about the lines of the fallback extractor, under SpecFallback *)

\* the date token of a line, as a sequence of at most one text
DateTokenOf(line) == SpanTexts(line, FirstMatch("date", line))

\* the line holds a date token and, beside it, an amount token
HasDateAndAmount(line) ==
    /\ DateTokenOf(line) # <<>>
    /\ Matches("amount", ReplaceFirst("date", line)) # <<>>

\* C20 as stated: the primary pattern is applied per line: for a text of k
\* lines that each hold a date token and an amount token, the fallback
\* returns k transactions, one per line, in the order of the lines.
C20_OnePerLine ==
    (/\ pc = "done"
     /\ \A k \in 1..LineCount(text) : HasDateAndAmount(split(text, "\n")[k])) =>
        /\ Len(result.transactions) = LineCount(text)
        /\ \A k \in 1..LineCount(text) :
               result.transactions[k].date
                   = JStr(Str(normalizeDate(DateTokenOf(split(text, "\n")[k])[1])))

-----------------------------------------------------------------------------
(* Claims about the line-by-line reconstruction, under SpecAnalyze *)

\* C21 as stated: when the repaired text of the response cannot be parsed
\* but holds a block laid out over lines, one "key": value pair a line, the
\* parser puts the block together line by line and returns it as the
\* transactions instead of failing.
C21_LinesReconstructed ==
    (pc = "done" /\ modelOutcome.kind = "text"
                 /\ modelOutcome.text = rTruncatedLines) =>
        /\ path = "model"
        /\ Len(result.transactions) = 1
        /\ Get(result.transactions[1], "description") = JStr("Shop")

-----------------------------------------------------------------------------
(* Claims about the confidence of the entries kept, under SpecParse *)

\* the confidence an entry was supplied with, 50 when it has no such field
SuppliedConfidence(v) ==
    IF "confidence" \in DOMAIN v.o THEN v.o["confidence"] ELSE Num(50)

\* C22 as stated: every transaction the parser keeps has the confidence the
\* model supplied when it supplied one, an explicit 0 included, and 50 only
\* when the entry has no confidence field.
C22_ConfidenceKept ==
    (pc = "parsed" /\ result.plain.ok) =>
        /\ Len(result.plain.value.transactions) = Len(CompleteEntries(txs))
        /\ \A k \in 1..Len(CompleteEntries(txs)) :
               Get(result.plain.value.transactions[k], "confidence")
                   = SuppliedConfidence(CompleteEntries(txs)[k])

-----------------------------------------------------------------------------
(* Claims about the tiers of the fallback extractor, under SpecFallback *)

\* the transactions the secondary pattern pushes carry confidence 45
IsSecondary(t) == t.confidence = Num(45)

\* the secondary pattern's shape: an expense below 10000 under the
\* placeholder date
SecondaryShape(t) ==
    /\ t.amount.t = "num" /\ t.amount.n < 0 /\ t.amount.n > 0 - 10000 * 100
    /\ t.category = JStr("Other expenses")
    /\ t.confidence = Num(45)
    /\ t.date = JStr("2025-06-15")

\* C23: the secondary pattern runs only when the primary pattern produced no
\* transaction, and then every transaction has a negative amount of
\* absolute value strictly between 0 and 10000, category Other expenses,
\* confidence 45 and the placeholder date; the amounts are pairwise distinct
\* and there are at most 10 transactions.
C23_SecondaryTier ==
    (pc = "done" /\ \E k \in 1..Len(result.transactions) :
                        IsSecondary(result.transactions[k])) =>
        /\ PrimaryFrom(split(cleanExtractedText(text), "\n"), 1) = <<>>
        /\ Len(result.transactions) <= 10
        /\ \A k \in 1..Len(result.transactions) :
               SecondaryShape(result.transactions[k])
        /\ \A j, k \in 1..Len(result.transactions) :
               j # k => result.transactions[j].amount # result.transactions[k].amount

\* C23's case: twelve distinct amounts and no date give the first ten
C23_Witness ==
    /\ pc = "done"
    /\ text = TwelveAmounts
    /\ Len(result.transactions) = 10
    /\ result.transactions[1].amount = JNum(-1000)
    /\ result.transactions[10].amount = JNum(-1900)
    /\ IsSecondary(result.transactions[10])

\* the tier a transaction of the fallback comes from, told by its confidence
TierOf(t) ==
    IF t.confidence = Num(65) THEN "primary"
    ELSE IF t.confidence = Num(45) THEN "secondary"
    ELSE "demo"

\* the categories and the amounts of the demonstration transactions
DemoCategories == <<"Office costs", "Equipment and software", "Travel costs">>
DemoAmounts == <<-4599, -2999, -12550>>

\* the result is the three demonstration transactions
IsDemoResult(ts) ==
    /\ Len(ts) = 3
    /\ \A k \in 1..3 : /\ ts[k].category = JStr(DemoCategories[k])
                       /\ ts[k].amount = JNum(DemoAmounts[k])

\* C24: the demonstration transactions are emitted only when the primary and
\* the secondary pattern both produced no transaction, and then the result is
\* exactly 3 transactions with categories Office costs, Equipment and
\* software, Travel costs and amounts -45.99, -29.99, -125.50 in that order;
\* a fallback result never mixes transactions of two tiers.
C24_DemoTier ==
    pc = "done" =>
        /\ (\E k \in 1..Len(result.transactions) :
                TierOf(result.transactions[k]) = "demo")
            => /\ PrimaryFrom(split(cleanExtractedText(text), "\n"), 1) = <<>>
               /\ SecondaryPattern(cleanExtractedText(text)) = <<>>
               /\ IsDemoResult(result.transactions)
        /\ \A j, k \in 1..Len(result.transactions) :
               TierOf(result.transactions[j]) = TierOf(result.transactions[k])

\* C24's case: the only amount of the text is 10,000, which the secondary
\* pattern drops, and the three demonstration transactions are returned
C24_Witness ==
    /\ pc = "done"
    /\ text = fOffice \o fSpace \o fTenThousand
    /\ IsDemoResult(result.transactions)
    /\ TierOf(result.transactions[1]) = "demo"

\* the amounts of the amount matches on the line the primary pattern reads
LineAmounts(s) == ParseAmounts(AmountMatches(cleanExtractedText(s), TRUE))

\* the match at position k has the greatest absolute value, and no earlier
\* match is as large
EarliestLargest(amounts, k) ==
    /\ \A j \in 1..Len(amounts) : Abs(amounts[j]) <= Abs(amounts[k])
    /\ \A j \in 1..(k - 1) : Abs(amounts[j]) < Abs(amounts[k])

\* C25: on a line of the primary pattern the transaction's amount is the
\* amount match of greatest absolute value among all amount matches on the
\* line, with its sign; of two matches as large as each other the earlier
\* one is chosen.
C25_LargestAmount ==
    (pc = "done" /\ Len(result.transactions) > 0
                 /\ TierOf(result.transactions[1]) = "primary") =>
        \E k \in 1..Len(LineAmounts(text)) :
            /\ result.transactions[1].amount = JNum(LineAmounts(text)[k])
            /\ EarliestLargest(LineAmounts(text), k)

\* C25's case: the matches of "1-2-34 +34.00" are 1, -2, -34 and +34; the
\* earlier of the two largest, -34, is the amount
C25_Witness ==
    /\ pc = "done"
    /\ text = TieLine
    /\ LineAmounts(text) = <<100, -200, -3400, 3400>>
    /\ Len(result.transactions) = 1
    /\ result.transactions[1].amount = JNum(-3400)

-----------------------------------------------------------------------------
(* Claims about the categoriser, under SpecCategory *)

\* the labels of the six rules, in the order of the rules
RuleLabels ==
    <<"Office costs", "Travel costs", "Equipment and software",
      "Marketing and entertainment", "Legal and financial costs", "Staff costs">>

\* the description is written with a keyword of rule r, in whatever case
RuleHit(r, pieces) == \E k \in 1..Len(pieces) : pieces[k].word \in RuleKeywords[r]

\* C26: guessCategory is a case-insensitive first match over the rules in
\* the order Office costs, Travel costs, Equipment and software, Marketing
\* and entertainment, Legal and financial costs, Staff costs: a description
\* with keywords of several rules gets the category of the earliest of them,
\* a description with no keyword gets Unknown, and the result is always a
\* label of the taxonomy or Unknown.
C26_FirstRuleWins ==
    pc = "done" =>
        /\ \A r \in 1..6 :
               (RuleHit(r, txs) /\ \A q \in 1..(r - 1) : ~RuleHit(q, txs))
                   => result.category = RuleLabels[r]
        /\ (\A r \in 1..6 : ~RuleHit(r, txs)) => result.category = "Unknown"
        /\ result.category \in TaxonomyLabels \cup {"Unknown"}

\* C26's case: "HOTEL Office" holds a keyword of the second rule before one
\* of the first, neither in lower case, and gets the first rule's category
C26_Witness ==
    /\ pc = "done"
    /\ txs = <<[word |-> kwHotel, form |-> "upper"],
               [word |-> kwOffice, form |-> "capital"]>>
    /\ text = <<"H","O","T","E","L"," ","O","f","f","i","c","e">>
    /\ result.category = "Office costs"

-----------------------------------------------------------------------------
(* Claims about the runs that never reach the parser, under SpecAnalyze *)

\* C27: without a model API key analyzeDocument never calls the model and
\* returns exactly what fallbackAnalysis returns for the same input; with a
\* key and an empty response text it returns what fallbackAnalysis returns
\* as well, going from the response straight to the fallback.
C27_NoKeyOrEmptyFallsBack ==
    /\ [](~hasApiKey => /\ modelCalls = 0 /\ modelOutcome.kind = "none"
                        /\ pc \notin {"calling", "responded"})
    /\ []((~hasApiKey /\ pc = "done") => result = fallbackAnalysis(text, today))
    /\ []((hasApiKey /\ pc = "done" /\ modelOutcome.kind = "text"
                     /\ modelOutcome.text = <<>>)
              => result = fallbackAnalysis(text, today))
    /\ [][(pc = "responded" /\ modelOutcome.text = <<>>)
              => (pc' = "fallback" /\ path' = "fallback" /\ result' = result)]_vars

\* C27's case: a run without a key ended with the fallback's transaction for
\* the text "£45.99", the model never called
C27_Witness ==
    /\ pc = "done" /\ ~hasApiKey /\ modelCalls = 0
    /\ text = fPounds
    /\ Len(result.transactions) = 1
    /\ result.transactions[1].amount = JNum(-4599)

-----------------------------------------------------------------------------
(* Claims about the replies of the correction handler, under Spec *)

\* the step appends the reply of a correction that went through
CorrectionSucceeded(before, after) ==
    /\ Len(after) = Len(before) + 1
    /\ after[Len(after)].route = "put"
    /\ after[Len(after)].status = 200

\* the fields of a transaction a correction leaves alone: all but the
\* category, and the subcategory too unless a non-empty one was supplied
FrameFields(old, new, req) ==
    (DOMAIN old \cup DOMAIN new)
        \ (IF req.subcategory.t = "str" /\ req.subcategory.s # ""
           THEN {"category", "subcategory"} ELSE {"category"})

\* what a correction of the transaction at position i (from 1) leaves alone
CorrectionFrame(old, new, req, i) ==
    /\ Len(new.transactions) = Len(old.transactions)
    /\ \A j \in 1..Len(old.transactions) :
           j # i => new.transactions[j] = old.transactions[j]
    /\ \A f \in FrameFields(old.transactions[i], new.transactions[i], req) :
           Get(new.transactions[i], f) = Get(old.transactions[i], f)
    /\ \A f \in {"date", "description", "amount", "confidence"} :
           /\ f \in DOMAIN new.transactions[i]
           /\ new.transactions[i][f] = old.transactions[i][f]
    /\ new.summary.totalTransactions = old.summary.totalTransactions
    /\ new.summary.totalAmount = old.summary.totalAmount

\* C28: a successful correction at index i changes only the category of
\* transaction i, and its subcategory only when a non-empty one is supplied:
\* the number and the order of the transactions, every other transaction,
\* the date, description, amount and confidence of transaction i, and the
\* summary's totalTransactions and totalAmount stay as they were.
C28_CorrectionFrame ==
    [][CorrectionSucceeded(replies, replies') =>
          CorrectionFrame(stored, stored', replies'[Len(replies')].request,
                          parseInt(replies'[Len(replies')].request.transactionIndex).n + 1)]_vars

\* C28's case: the second demonstration transaction was corrected without a
\* category and without a subcategory; it lost its category and kept the rest
C28_Witness ==
    /\ Len(replies) = 2
    /\ replies[2].route = "put" /\ replies[2].status = 200
    /\ replies[2].request.transactionIndex = <<"1">>
    /\ Len(stored.transactions) = 3
    /\ DOMAIN stored.transactions[2]
           = {"date", "description", "amount", "subcategory", "confidence"}
    /\ stored.transactions[2].subcategory = JStr("Software")
    /\ stored.transactions[2].amount = JNum(-2999)
    /\ stored.summary.totalAmount = JNum(20148)

\* the step appends the reply to a correction
CorrectionAnswered(before, after) ==
    /\ Len(after) = Len(before) + 1
    /\ after[Len(after)].route = "put"

\* the index of the request is no position of the stored list: no number,
\* negative, or at or past its length
InvalidIndex(file, req) ==
    \/ parseInt(req.transactionIndex) = JNaN
    \/ parseInt(req.transactionIndex).n < 0
    \/ parseInt(req.transactionIndex).n >= Len(file.transactions)

\* C29 as stated: a correction whose index is no valid position of the
\* stored list (negative, at or past the length, or not a number) is
\* rejected with 'Invalid transaction index' (status 400), and a correction
\* of a document with no stored result with 'Analysis result not found'
\* (status 404); both leave what is stored as it was.
C29_InvalidRejected ==
    [][CorrectionAnswered(replies, replies') =>
          /\ stored = NoResult =>
                 replies'[Len(replies')].status = 404 /\ stored' = stored
          /\ (stored # NoResult
              /\ InvalidIndex(stored, replies'[Len(replies')].request)) =>
                 replies'[Len(replies')].status = 400 /\ stored' = stored]_vars

\* the successful corrections of the log, by position
Successful(log) ==
    {k \in 1..Len(log) : log[k].route = "put" /\ log[k].status = 200}

\* no later successful correction of the log is of the same transaction
LastOfItsIndex(log, k) ==
    \A j \in Successful(log) :
        j > k => log[j].request.transactionIndex # log[k].request.transactionIndex

\* the stored result holds the category the correction asked for
Reflected(file, req) ==
    /\ parseInt(req.transactionIndex).n + 1 \in 1..Len(file.transactions)
    /\ Get(file.transactions[parseInt(req.transactionIndex).n + 1], "category")
           = req.category

\* C30 as stated: a correction that went through is never lost to an analyze
\* request for the same document: whatever the interleaving of an analyze
\* run, which writes its result only after awaiting the extraction and the
\* model call, with corrections, every correction that returned success
\* while the run was under way is in the stored result once all requests
\* have completed.
C30_CorrectionSurvivesAnalyze ==
    (pending = {} /\ pc = "idle" /\ stored # NoResult) =>
        \A k \in Successful(replies) :
            (replies[k].during /\ LastOfItsIndex(replies, k))
                => Reflected(stored, replies[k].request)

====
